---- MODULE Spec2Model ----
(***************************************************************************)
(* Model of the all.factory cleanup backend (backend/routers/cleanup.py,   *)
(* backend/utils/mmi_parser.py, backend/utils/sql_parser.py and            *)
(* backend/utils/analysis.py).                                             *)
(*                                                                         *)
(* Python strings are TLA+ strings, handled with Len, SubSeq and \o.       *)
(* Python values are tagged records: None, NaN, a str, an int, a pandas    *)
(* Timestamp.  A dict is a function whose DOMAIN is the set of its keys.   *)
(***************************************************************************)
EXTENDS Integers, Sequences, FiniteSets, TLC

(***************************************************************************)
(* Python string primitives                                                *)
(***************************************************************************)

\* s[i-1] of Python, as a one-character string
Ch(s, i) == SubSeq(s, i, i)

\* s[i-1:] of Python
From(s, i) == SubSeq(s, i, Len(s))

\* str.startswith
StartsWith(s, p) == Len(s) >= Len(p) /\ SubSeq(s, 1, Len(p)) = p

\* str.find, 1-based, 0 when p does not occur at or after position i
FindFrom(s, p, i) ==
    LET hits == {j \in i..(Len(s) - Len(p) + 1) : SubSeq(s, j, j + Len(p) - 1) = p}
    IN  IF hits = {} THEN 0 ELSE CHOOSE j \in hits : \A k \in hits : j <= k

\* the `in` operator on strings
Contains(s, p) == FindFrom(s, p, 1) # 0

\* str.replace(old, new), all occurrences, left to right, old non-empty
RECURSIVE Replace(_, _, _)
Replace(s, old, new) ==
    LET i == FindFrom(s, old, 1)
    IN  IF i = 0 THEN s
        ELSE SubSeq(s, 1, i - 1) \o new \o Replace(From(s, i + Len(old)), old, new)

\* str.split(sep): always at least one part
RECURSIVE Split(_, _)
Split(s, sep) ==
    LET i == FindFrom(s, sep, 1)
    IN  IF i = 0 THEN <<s>>
        ELSE <<SubSeq(s, 1, i - 1)>> \o Split(From(s, i + Len(sep)), sep)

\* sep.join(parts)
RECURSIVE Join(_, _)
Join(parts, sep) ==
    IF Len(parts) = 0 THEN ""
    ELSE IF Len(parts) = 1 THEN parts[1]
    ELSE parts[1] \o sep \o Join(Tail(parts), sep)

\* the characters str.strip() and the regex class \s remove
IsSpace(c) == c \in {" ", "\t", "\n", "\r", "\f"}

RECURSIVE LStrip(_)
LStrip(s) == IF Len(s) > 0 /\ IsSpace(Ch(s, 1)) THEN LStrip(From(s, 2)) ELSE s

RECURSIVE RStrip(_)
RStrip(s) ==
    IF Len(s) > 0 /\ IsSpace(Ch(s, Len(s))) THEN RStrip(SubSeq(s, 1, Len(s) - 1)) ELSE s

\* str.strip()
Strip(s) == RStrip(LStrip(s))

LowerLetters == "abcdefghijklmnopqrstuvwxyz"

UpperLetters == "ABCDEFGHIJKLMNOPQRSTUVWXYZ"

UpperCh(c) ==
    LET i == FindFrom(LowerLetters, c, 1) IN IF i = 0 THEN c ELSE Ch(UpperLetters, i)

LowerCh(c) ==
    LET i == FindFrom(UpperLetters, c, 1) IN IF i = 0 THEN c ELSE Ch(LowerLetters, i)

\* str.upper()
RECURSIVE Upper(_)
Upper(s) ==
    IF Len(s) = 0 THEN ""
    ELSE IF Len(s) = 1 THEN UpperCh(s)
    ELSE Upper(SubSeq(s, 1, Len(s) \div 2)) \o Upper(From(s, Len(s) \div 2 + 1))

\* str.lower()
RECURSIVE Lower(_)
Lower(s) ==
    IF Len(s) = 0 THEN ""
    ELSE IF Len(s) = 1 THEN LowerCh(s)
    ELSE Lower(SubSeq(s, 1, Len(s) \div 2)) \o Lower(From(s, Len(s) \div 2 + 1))

Digits == "0123456789"

\* the regex class \d
IsDigit(c) == Len(c) = 1 /\ FindFrom(Digits, c, 1) # 0

DigitVal(c) == FindFrom(Digits, c, 1) - 1

RECURSIVE AllDigits(_)
AllDigits(s) == Len(s) = 0 \/ (IsDigit(Ch(s, 1)) /\ AllDigits(From(s, 2)))

RECURSIVE DigitsValue(_)
DigitsValue(s) ==
    IF Len(s) = 0 THEN 0
    ELSE 10 * DigitsValue(SubSeq(s, 1, Len(s) - 1)) + DigitVal(Ch(s, Len(s)))

\* a local variable of the source: Body evaluated with the variable bound to value
Let(value, Body(_)) == Body(value)

\* int(s): surrounding whitespace and one sign are accepted; ok = FALSE is ValueError
PyInt(s) ==
    Let(Strip(s), LAMBDA t :
    Let(Len(t) > 0 /\ Ch(t, 1) \in {"+", "-"}, LAMBDA signed :
    Let(IF signed THEN From(t, 2) ELSE t, LAMBDA d :
        IF Len(d) > 0 /\ AllDigits(d)
        THEN Let(DigitsValue(d), LAMBDA n :
                 [ok |-> TRUE, n |-> IF signed /\ Ch(t, 1) = "-" THEN 0 - n ELSE n])
        ELSE [ok |-> FALSE, n |-> 0])))

\* str(n) for n >= 0
RECURSIVE NatStr(_)
NatStr(n) == IF n < 10 THEN Ch(Digits, n + 1) ELSE NatStr(n \div 10) \o Ch(Digits, (n % 10) + 1)

RECURSIVE ZeroPad(_, _)
ZeroPad(s, w) == IF Len(s) >= w THEN s ELSE ZeroPad("0" \o s, w)

\* f"{n:04d}" for n >= 0
Fmt04d(n) == ZeroPad(NatStr(n), 4)

(***************************************************************************)
(* Python values                                                           *)
(***************************************************************************)

None == [t |-> "None"]

\* float("nan"), the empty cell of a pandas DataFrame
NaN == [t |-> "NaN"]

Str(s) == [t |-> "str", s |-> s]

IntV(n) == [t |-> "int", n |-> n]

\* pandas.Timestamp: a calendar date and a time of day HH:MM:SS
Timestamp(d, tm) == [t |-> "Timestamp", date |-> d, time |-> tm]

\* pd.isna(v)
IsNa(v) == v.t \in {"None", "NaN"}

\* bool(v): None, "" and 0 are false; NaN, being a non-zero float, is true
Truthy(v) ==
    CASE v.t = "None" -> FALSE
      [] v.t = "str" -> v.s # ""
      [] v.t = "int" -> v.n # 0
      [] OTHER -> TRUE

\* a == b of Python: NaN equals nothing, itself included
PyEq(a, b) == a.t # "NaN" /\ b.t # "NaN" /\ a = b

\* str(v)
PyStr(v) ==
    CASE v.t = "None" -> "None"
      [] v.t = "NaN" -> "nan"
      [] v.t = "str" -> v.s
      [] v.t = "int" -> IF v.n < 0 THEN "-" \o NatStr(0 - v.n) ELSE NatStr(v.n)
      [] OTHER -> v.date \o " " \o v.time

\* dict.get(key), None when the key is missing
Get(d, k) == IF k \in DOMAIN d THEN d[k] ELSE None

\* dict.get(key, default)
GetOr(d, k, default) == IF k \in DOMAIN d THEN d[k] ELSE default

(***************************************************************************)
(* utils/mmi_parser.py                                                     *)
(***************************************************************************)

\* any(word in content_upper for word in [...]) of _classify
HasClearWord(u) ==
    \E w \in {"CLEAR", "RESET", "END", "RESOLVED", "OFF"} : Contains(u, w)

_classify(content) ==
    LET content_upper == Upper(content)
    IN  IF Contains(content_upper, "MMI START") THEN "MMI_START"
        ELSE IF Contains(Lower(content), "insert into") THEN "SQL_INSERT"
        ELSE IF StartsWith(content, "+2,") THEN "CAM2_SN"
        ELSE IF StartsWith(content, "+3,") THEN "CAM3_PRS"
        ELSE IF StartsWith(content, "+4,") THEN "CAM4_PSA_TAPE"
        ELSE IF StartsWith(content, "+5,") THEN "CAM2_PSA_POWER"
        ELSE IF StartsWith(content, "+6,") THEN "CAM2_PSA_BATTERY"
        ELSE IF Contains(content_upper, "PLC DM") THEN "PLC_DM"
        ELSE IF Contains(content_upper, "TOTAL LOG") THEN "TOTAL_LOG"
        ELSE IF Contains(content_upper, "ERROR") \/ Contains(content_upper, "ALARM")
             THEN IF HasClearWord(content_upper) THEN "ERROR_CLEAR" ELSE "ERROR"
        ELSE IF Contains(content, "6101") \/ Contains(content_upper, "FLAG") THEN "PLC_FLAG"
        ELSE "OTHER"

\* position after the run of \s* that starts at i
RECURSIVE SkipSpaces(_, _)
SkipSpaces(s, i) == IF i <= Len(s) /\ IsSpace(Ch(s, i)) THEN SkipSpaces(s, i + 1) ELSE i

\* re.search(r"VALUES\s*\(([^)]+)\)", content, re.IGNORECASE) tried at position i:
\* group 1, or "" for no match there (group 1 is never empty)
ValuesAt(s, i) ==
    IF Lower(SubSeq(s, i, i + 5)) # "values" THEN ""
    ELSE LET j == SkipSpaces(s, i + 6)
             close == FindFrom(s, ")", j + 1)
         IN  IF j <= Len(s) /\ Ch(s, j) = "(" /\ close >= j + 2
             THEN SubSeq(s, j + 1, close - 1) ELSE ""

\* the leftmost match of the VALUES pattern, "" for none
ValuesSearch(s, i) ==
    LET hits == {j \in i..(Len(s) - 5) : ValuesAt(s, j) # ""}
    IN  IF hits = {} THEN ""
        ELSE ValuesAt(s, CHOOSE j \in hits : \A k \in hits : j <= k)

\* data of a "+N," camera line: status and image taken from comma-separated parts
CamData(content, need, img) ==
    LET parts == Split(content, ",")
    IN  IF Len(parts) >= need
        THEN [k \in {"status", "image"} |-> IF k = "status" THEN parts[2] ELSE parts[img]]
        ELSE <<>>

\* The extracted fields of a line.  data["parsed_values"] (the VALUES string zipped
\* against the 15 column names) is read by no detector and by no endpoint logic and
\* is left out; data["serial"] and data["prs_values"] are kept.
_extract_data(content) ==
    IF Contains(Lower(content), "insert into")
    THEN LET v == ValuesSearch(content, 1)
         IN  IF v # "" THEN [k \in {"values"} |-> v] ELSE <<>>
    ELSE IF StartsWith(content, "+2,")
    THEN LET parts == Split(content, ",")
         IN  IF Len(parts) >= 4
             THEN [k \in {"status", "serial", "image"} |->
                     IF k = "status" THEN parts[2]
                     ELSE IF k = "serial" THEN parts[3] ELSE parts[4]]
             ELSE <<>>
    ELSE IF StartsWith(content, "+3,")
    THEN LET parts == Split(content, ",")
         IN  IF Len(parts) >= 6
             THEN [k \in {"status", "prs_values", "image"} |->
                     IF k = "status" THEN parts[2]
                     ELSE IF k = "prs_values"
                          THEN parts[3] \o "," \o parts[4] \o "," \o parts[5]
                     ELSE parts[6]]
             ELSE <<>>
    ELSE IF StartsWith(content, "+4,") \/ StartsWith(content, "+5,")
            \/ StartsWith(content, "+6,")
    THEN CamData(content, 3, 3)
    ELSE <<>>

\* re.match(r'\[([^\]]+)\](.+)', line): the closing bracket is the first "]" of the
\* line, with at least one character before it and one after it
LineMatches(line) ==
    LET p == FindFrom(line, "]", 2)
    IN  Len(line) > 0 /\ Ch(line, 1) = "[" /\ p >= 3 /\ p < Len(line)

\* the event numbered with the 0-based index of its line
MakeEvent_zero_based(line, i) ==
    LET p == FindFrom(line, "]", 2)
        event_content == From(line, p + 1)
    IN  [line_number |-> i,
         timestamp |-> SubSeq(line, 2, p - 1),
         raw |-> line,
         content |-> event_content,
         event_type |-> _classify(event_content),
         data |-> _extract_data(event_content)]

\* the event of a matching stripped line found at 0-based index i of the line list
MakeEvent(line, i) ==
    LET p == FindFrom(line, "]", 2)
        event_content == From(line, p + 1)
    IN  [line_number |-> i + 1,
         timestamp |-> SubSeq(line, 2, p - 1),
         raw |-> line,
         content |-> event_content,
         event_type |-> _classify(event_content),
         data |-> _extract_data(event_content)]

\* the line list parse_mmi_log enumerates
ParserLines(content) == Split(Replace(Replace(content, "\r\n", "\n"), "\r", "\n"), "\n")

\* the loop of parse_mmi_log over lines[i..], i 1-based here
RECURSIVE ParseFrom(_, _)
ParseFrom(lines, i) ==
    IF i > Len(lines) THEN <<>>
    ELSE LET line == Strip(lines[i])
         IN  (IF line # "" /\ LineMatches(line) THEN <<MakeEvent(line, i - 1)>> ELSE <<>>)
             \o ParseFrom(lines, i + 1)

parse_mmi_log(content) == ParseFrom(ParserLines(content), 1)

(***************************************************************************)
(* utils/analysis.py: helper functions                                     *)
(***************************************************************************)

\* re.search(r"_(\d+)$", s): the start of the trailing digit run of s, which must be
\* non-empty and preceded by "_"; 0 for no match
RECURSIVE DigitRunStart(_, _)
DigitRunStart(s, i) == IF i >= 1 /\ IsDigit(Ch(s, i)) THEN DigitRunStart(s, i - 1) ELSE i + 1

IndexSuffixStart(s) ==
    LET d == DigitRunStart(s, Len(s))
    IN  IF d <= Len(s) /\ d >= 2 /\ Ch(s, d - 1) = "_" THEN d ELSE 0

\* Optional[int]: ok = FALSE is None
_extract_image_index(img_name) ==
    IF IsNa(img_name) \/ ~Truthy(img_name) THEN [ok |-> FALSE, n |-> 0]
    ELSE LET s == PyStr(img_name)
             d == IndexSuffixStart(s)
         IN  IF d = 0 THEN [ok |-> FALSE, n |-> 0]
             ELSE [ok |-> TRUE, n |-> DigitsValue(From(s, d))]

\* the substitution that leaves the file name as it is
SubIndex_keeping_index(s, idx) == s

\* re.sub(r"_\d+$", "_" + f"{idx:04d}", s)
SubIndex(s, idx) ==
    LET d == IndexSuffixStart(s)
    IN  IF d = 0 THEN s ELSE SubSeq(s, 1, d - 2) \o "_" \o Fmt04d(idx)

_extract_time(date_value) ==
    IF date_value = None THEN ""
    ELSE IF date_value.t = "Timestamp" THEN date_value.time
    ELSE LET s == PyStr(date_value)
         IN  IF Contains(s, " ") THEN Split(Split(s, " ")[2], ".")[1] ELSE s

\* _normalize_time with PM adding 12 hours at hour 12 too
_normalize_time_pm_adds_always(t0) ==
    Let(Upper(Strip(t0)), LAMBDA u :
    Let(Contains(u, "PM"), LAMBDA is_pm :
    Let(Contains(u, "AM"), LAMBDA is_am :
    Let(Strip(Replace(Replace(u, "AM", ""), "PM", "")), LAMBDA t :
    Let(Split(Replace(t, ".", ":"), ":"), LAMBDA all_parts :
        IF Len(all_parts) < 3 THEN 0
        ELSE Let(PyInt(all_parts[1]), LAMBDA hour :
             Let(PyInt(all_parts[2]), LAMBDA minute :
             Let(IF all_parts[3] # "" THEN PyInt(Split(all_parts[3], ".")[1])
                 ELSE [ok |-> TRUE, n |-> 0], LAMBDA second :
             Let(IF is_pm THEN hour.n + 12
                 ELSE IF is_am /\ hour.n = 12 THEN 0
                 ELSE hour.n, LAMBDA hour24 :
                 IF hour.ok /\ minute.ok /\ second.ok
                 THEN hour24 * 3600 + minute.n * 60 + second.n
                 ELSE 0)))))))))

\* seconds since midnight; 0 when fewer than three parts or a part is no integer
_normalize_time(t0) ==
    Let(Upper(Strip(t0)), LAMBDA u :
    Let(Contains(u, "PM"), LAMBDA is_pm :
    Let(Contains(u, "AM"), LAMBDA is_am :
    Let(Strip(Replace(Replace(u, "AM", ""), "PM", "")), LAMBDA t :
    Let(Split(Replace(t, ".", ":"), ":"), LAMBDA all_parts :
        IF Len(all_parts) < 3 THEN 0
        ELSE Let(PyInt(all_parts[1]), LAMBDA hour :
             Let(PyInt(all_parts[2]), LAMBDA minute :
             Let(IF all_parts[3] # "" THEN PyInt(Split(all_parts[3], ".")[1])
                 ELSE [ok |-> TRUE, n |-> 0], LAMBDA second :
             Let(IF is_pm /\ hour.n # 12 THEN hour.n + 12
                 ELSE IF is_am /\ hour.n = 12 THEN 0
                 ELSE hour.n, LAMBDA hour24 :
                 IF hour.ok /\ minute.ok /\ second.ok
                 THEN hour24 * 3600 + minute.n * 60 + second.n
                 ELSE 0)))))))))

\* the difference taken with its sign
Abs_signed(n) == n

Abs(n) == IF n < 0 THEN 0 - n ELSE n

_times_close(t1, t2, window_seconds) ==
    Abs(_normalize_time(t1) - _normalize_time(t2)) <= window_seconds

_find_inserts_near_time(events, timestamp) ==
    LET near(e) == e.event_type = "SQL_INSERT" /\ _times_close(e.timestamp, timestamp, 10)
    IN  SelectSeq(events, near)

cam_types == {"CAM2_SN", "CAM3_PRS", "CAM4_PSA_TAPE", "CAM2_PSA_POWER", "CAM2_PSA_BATTERY"}

_find_camera_events_near_time(events, timestamp) ==
    LET near(e) == e.event_type \in cam_types /\ _times_close(e.timestamp, timestamp, 30)
    IN  SelectSeq(events, near)

\* isoformat() of a Timestamp
IsoFormat(v) == v.date \o "T" \o v.time

CleanValue(v) ==
    IF IsNa(v) THEN None
    ELSE IF v.t = "Timestamp" THEN Str(IsoFormat(v))
    ELSE v

_clean_row(row) == IF row = None THEN None ELSE [k \in DOMAIN row |-> CleanValue(row[k])]

\* dict(row) with the assignment left out
DictSet_without_assignment(row, key, value) == row

\* dict(row) with row[key] = value
DictSet(row, key, value) ==
    [k \in DOMAIN row \cup {key} |-> IF k = key THEN value ELSE row[k]]

\* [e["raw"] for e in events]
Raws(events) == [i \in 1..Len(events) |-> events[i].raw]

\* [e["line_number"] for e in events]
LineNumbers(events) == [i \in 1..Len(events) |-> events[i].line_number]

\* seq[:n]
Take(seq, n) == SubSeq(seq, 1, IF Len(seq) < n THEN Len(seq) ELSE n)

(***************************************************************************)
(* utils/analysis.py: the detectors                                        *)
(***************************************************************************)

\* the first CAM4_PSA_TAPE event within 60 s of timestamp, as a list of 0 or 1 events
FirstPsaTapeEvent(mmi_events, timestamp) ==
    LET close(e) == e.event_type = "CAM4_PSA_TAPE" /\ _times_close(e.timestamp, timestamp, 60)
    IN  Take(SelectSeq(mmi_events, close), 1)

\* the proposals find_missing_psa_tape appends for one row: none or one
MissingPsaTapeOf(mmi_events, row) ==
    LET psa_tape == Get(row, "PSA_TAPE_PIC")
        row_id == Get(row, "ID")
        has_data == Truthy(Get(row, "POWER_BOARD_SN")) \/ Truthy(Get(row, "BATTERY_SN"))
    IN  IF (IsNa(psa_tape) \/ psa_tape = Str("")) /\ has_data
        THEN Let(_extract_time(Get(row, "DATE")), LAMBDA timestamp :
             Let(FirstPsaTapeEvent(mmi_events, timestamp), LAMBDA found :
             Let(IF Len(found) = 0 THEN None
                 ELSE IF "image" \in DOMAIN found[1].data
                      THEN Str(found[1].data["image"]) ELSE None, LAMBDA suggested_image :
             Let(found \o _find_inserts_near_time(mmi_events, timestamp),
                 LAMBDA evidence_events :
             Let(DictSet(row, "PSA_TAPE_PIC", suggested_image), LAMBDA sql_after :
                 << [id |-> "missing_psa_" \o PyStr(row_id),
                     issue_type |-> "MISSING_PSA_TAPE",
                     description |-> "PSA_TAPE_PIC is empty for row " \o PyStr(row_id),
                     timestamp |-> timestamp,
                     action |-> IF Truthy(suggested_image) THEN "UPDATE" ELSE "FLAG",
                     sql_row_id |-> row_id,
                     sql_before |-> _clean_row(row),
                     sql_after |-> IF Truthy(suggested_image) THEN _clean_row(sql_after)
                                   ELSE None,
                     suggested_value |-> suggested_image,
                     mmi_evidence |-> Raws(evidence_events),
                     mmi_line_numbers |-> LineNumbers(evidence_events),
                     status |-> "pending"] >>)))))
        ELSE <<>>

RECURSIVE MissingPsaTapeFrom(_, _, _)
MissingPsaTapeFrom(mmi_events, sql_data, i) ==
    IF i > Len(sql_data) THEN <<>>
    ELSE MissingPsaTapeOf(mmi_events, sql_data[i])
         \o MissingPsaTapeFrom(mmi_events, sql_data, i + 1)

find_missing_psa_tape(mmi_events, sql_data) == MissingPsaTapeFrom(mmi_events, sql_data, 1)

\* DuplicateOf with the row left in the after snapshot
DuplicateOf_keeping_after(mmi_events, prev, curr) ==
    LET same_data == /\ PyEq(Get(curr, "POWER_BOARD_SN"), Get(prev, "POWER_BOARD_SN"))
                     /\ PyEq(Get(curr, "BATTERY_SN"), Get(prev, "BATTERY_SN"))
                     /\ PyEq(Get(curr, "PSA_TAPE_PIC"), Get(prev, "PSA_TAPE_PIC"))
        row_id == Get(curr, "ID")
        prev_id == Get(prev, "ID")
    IN  IF PyStr(Get(curr, "DATE")) = PyStr(Get(prev, "DATE")) /\ same_data
        THEN Let(_extract_time(Get(curr, "DATE")), LAMBDA timestamp :
             Let(_find_inserts_near_time(mmi_events, timestamp), LAMBDA insert_events :
             << [id |-> "duplicate_" \o PyStr(row_id),
                 issue_type |-> "DUPLICATE_INSERT",
                 description |-> "Row " \o PyStr(row_id) \o " is duplicate of "
                                 \o PyStr(prev_id) \o " at " \o timestamp,
                 timestamp |-> timestamp,
                 action |-> "DELETE",
                 sql_row_id |-> row_id,
                 sql_before |-> _clean_row(curr),
                 sql_after |-> _clean_row(curr),
                 duplicate_of |-> prev_id,
                 mmi_evidence |-> Raws(insert_events),
                 mmi_line_numbers |-> LineNumbers(insert_events),
                 status |-> "pending"] >>))
        ELSE <<>>

\* the proposals find_duplicate_rows appends for the adjacent pair (prev, curr)
DuplicateOf(mmi_events, prev, curr) ==
    LET same_data == /\ PyEq(Get(curr, "POWER_BOARD_SN"), Get(prev, "POWER_BOARD_SN"))
                     /\ PyEq(Get(curr, "BATTERY_SN"), Get(prev, "BATTERY_SN"))
                     /\ PyEq(Get(curr, "PSA_TAPE_PIC"), Get(prev, "PSA_TAPE_PIC"))
        row_id == Get(curr, "ID")
        prev_id == Get(prev, "ID")
    IN  IF PyStr(Get(curr, "DATE")) = PyStr(Get(prev, "DATE")) /\ same_data
        THEN Let(_extract_time(Get(curr, "DATE")), LAMBDA timestamp :
             Let(_find_inserts_near_time(mmi_events, timestamp), LAMBDA insert_events :
             << [id |-> "duplicate_" \o PyStr(row_id),
                 issue_type |-> "DUPLICATE_INSERT",
                 description |-> "Row " \o PyStr(row_id) \o " is duplicate of "
                                 \o PyStr(prev_id) \o " at " \o timestamp,
                 timestamp |-> timestamp,
                 action |-> "DELETE",
                 sql_row_id |-> row_id,
                 sql_before |-> _clean_row(curr),
                 sql_after |-> None,
                 duplicate_of |-> prev_id,
                 mmi_evidence |-> Raws(insert_events),
                 mmi_line_numbers |-> LineNumbers(insert_events),
                 status |-> "pending"] >>))
        ELSE <<>>

\* for i in range(1, len(sql_data)), i 1-based here: sql_data[i] is curr
RECURSIVE DuplicateFrom(_, _, _)
DuplicateFrom(mmi_events, sql_data, i) ==
    IF i > Len(sql_data) THEN <<>>
    ELSE DuplicateOf(mmi_events, sql_data[i - 1], sql_data[i])
         \o DuplicateFrom(mmi_events, sql_data, i + 1)

find_duplicate_rows(mmi_events, sql_data) == DuplicateFrom(mmi_events, sql_data, 2)

\* pd.isna(v) or v == ""
IsBlank(v) == IsNa(v) \/ v = Str("")

\* find_orphan_rows' test with one missing serial number sufficing
OrphanOf_either_serial_missing(mmi_events, row) ==
    LET row_id == Get(row, "ID")
        no_power_sn == IsBlank(Get(row, "POWER_BOARD_SN"))
        no_battery_sn == IsBlank(Get(row, "BATTERY_SN"))
        has_any_psa == \/ ~IsBlank(Get(row, "PSA_TAPE_PIC"))
                       \/ ~IsBlank(Get(row, "POWER_BOARD_PSA_PIC"))
                       \/ ~IsBlank(Get(row, "BATTERY_PSA_PIC"))
    IN  IF (no_power_sn \/ no_battery_sn) /\ has_any_psa
        THEN Let(_extract_time(Get(row, "DATE")), LAMBDA timestamp :
             Let(_find_inserts_near_time(mmi_events, timestamp), LAMBDA insert_events :
             << [id |-> "orphan_" \o PyStr(row_id),
                 issue_type |-> "ORPHAN_ROW",
                 description |-> "Row " \o PyStr(row_id)
                                 \o " has PSA images but no serial numbers",
                 timestamp |-> timestamp,
                 action |-> "DELETE",
                 sql_row_id |-> row_id,
                 sql_before |-> _clean_row(row),
                 sql_after |-> None,
                 mmi_evidence |-> Raws(insert_events),
                 mmi_line_numbers |-> LineNumbers(insert_events),
                 status |-> "pending"] >>))
        ELSE <<>>

\* the proposals find_orphan_rows appends for one row: none or one
OrphanOf(mmi_events, row) ==
    LET row_id == Get(row, "ID")
        no_power_sn == IsBlank(Get(row, "POWER_BOARD_SN"))
        no_battery_sn == IsBlank(Get(row, "BATTERY_SN"))
        has_any_psa == \/ ~IsBlank(Get(row, "PSA_TAPE_PIC"))
                       \/ ~IsBlank(Get(row, "POWER_BOARD_PSA_PIC"))
                       \/ ~IsBlank(Get(row, "BATTERY_PSA_PIC"))
    IN  IF no_power_sn /\ no_battery_sn /\ has_any_psa
        THEN Let(_extract_time(Get(row, "DATE")), LAMBDA timestamp :
             Let(_find_inserts_near_time(mmi_events, timestamp), LAMBDA insert_events :
             << [id |-> "orphan_" \o PyStr(row_id),
                 issue_type |-> "ORPHAN_ROW",
                 description |-> "Row " \o PyStr(row_id)
                                 \o " has PSA images but no serial numbers",
                 timestamp |-> timestamp,
                 action |-> "DELETE",
                 sql_row_id |-> row_id,
                 sql_before |-> _clean_row(row),
                 sql_after |-> None,
                 mmi_evidence |-> Raws(insert_events),
                 mmi_line_numbers |-> LineNumbers(insert_events),
                 status |-> "pending"] >>))
        ELSE <<>>

RECURSIVE OrphanFrom(_, _, _)
OrphanFrom(mmi_events, sql_data, i) ==
    IF i > Len(sql_data) THEN <<>>
    ELSE OrphanOf(mmi_events, sql_data[i]) \o OrphanFrom(mmi_events, sql_data, i + 1)

find_orphan_rows(mmi_events, sql_data) == OrphanFrom(mmi_events, sql_data, 1)

EXPECTED_GAP == 6

\* str(n) for any integer n
IntStr(n) == PyStr(IntV(n))

\* one component's check of find_cam2_index_mismatches: tag is "pb" or "bt", label the
\* component's name in the description, sn_field and psa_field its two picture columns
IndexMismatchOf(mmi_events, row, tag, label, sn_field, psa_field) ==
    Let(_extract_image_index(Get(row, sn_field)), LAMBDA sn_idx :
    Let(_extract_image_index(Get(row, psa_field)), LAMBDA psa_idx :
    LET row_id == Get(row, "ID")
        gap == psa_idx.n - sn_idx.n
        expected_idx == sn_idx.n + EXPECTED_GAP
        sn_pic == GetOr(row, sn_field, Str(""))
    IN  IF sn_idx.ok /\ psa_idx.ok /\ gap # EXPECTED_GAP
        THEN Let(_extract_time(Get(row, "DATE")), LAMBDA timestamp :
             Let(Take(_find_camera_events_near_time(mmi_events, timestamp), 5),
                 LAMBDA cam_events :
             Let(SubIndex(PyStr(sn_pic), expected_idx), LAMBDA suggested_psa :
             Let(DictSet(row, psa_field, Str(suggested_psa)), LAMBDA sql_after :
             << [id |-> "cam2_" \o tag \o "_mismatch_" \o PyStr(row_id),
                 issue_type |-> "INDEX_MISMATCH",
                 description |-> "Row " \o PyStr(row_id) \o ": " \o label \o " PSA index "
                                 \o IntStr(psa_idx.n) \o " should be " \o IntStr(expected_idx)
                                 \o " (SN index=" \o IntStr(sn_idx.n) \o ", gap=" \o IntStr(gap)
                                 \o ", expected +" \o IntStr(EXPECTED_GAP) \o ")",
                 timestamp |-> timestamp,
                 action |-> "UPDATE",
                 sql_row_id |-> row_id,
                 sql_before |-> _clean_row(row),
                 sql_after |-> _clean_row(sql_after),
                 field |-> psa_field,
                 current_index |-> psa_idx.n,
                 expected_index |-> expected_idx,
                 sn_index |-> sn_idx.n,
                 gap |-> gap,
                 mmi_evidence |-> Raws(cam_events),
                 mmi_line_numbers |-> LineNumbers(cam_events),
                 status |-> "pending"] >>))))
        ELSE <<>>))

RECURSIVE IndexMismatchFrom(_, _, _)
IndexMismatchFrom(mmi_events, sql_data, i) ==
    IF i > Len(sql_data) THEN <<>>
    ELSE IndexMismatchOf(mmi_events, sql_data[i], "pb", "Power Board",
                         "POWER_BOARD_SN_PIC", "POWER_BOARD_PSA_PIC")
         \o IndexMismatchOf(mmi_events, sql_data[i], "bt", "Battery",
                            "BATTERY_SN_PIC", "BATTERY_PSA_PIC")
         \o IndexMismatchFrom(mmi_events, sql_data, i + 1)

find_cam2_index_mismatches(mmi_events, sql_data) == IndexMismatchFrom(mmi_events, sql_data, 1)

\* event["data"].get("values", "")
ValuesOf(e) == GetOr(e.data, "values", "")

\* the inner while loop of find_repeated_inserts: the first 1-based index j' >= j at
\* which the group that starts at insert_events[i] stops growing
RECURSIVE GroupEnd(_, _, _)
GroupEnd(insert_events, i, j) ==
    IF j <= Len(insert_events)
       /\ ValuesOf(insert_events[j]) = ValuesOf(insert_events[i])
       /\ _times_close(insert_events[i].timestamp, insert_events[j].timestamp, 30)
    THEN GroupEnd(insert_events, i, j + 1)
    ELSE j

\* the proposal for group[k], k 0-based as in the code (k >= 1)
RepeatedOf(group, affected_rows, k) ==
    LET event == group[k + 1]
        matched == k < Len(affected_rows) /\ DOMAIN affected_rows[k + 1] # {}
        matched_row == IF k < Len(affected_rows) THEN affected_rows[k + 1] ELSE None
    IN  [id |-> "repeated_" \o IntStr(event.line_number),
         issue_type |-> "REPEATED_INSERT",
         description |-> "INSERT repeated " \o IntStr(Len(group)) \o " times at "
                         \o group[1].timestamp \o " (occurrence " \o IntStr(k + 1)
                         \o " of " \o IntStr(Len(group)) \o ")",
         timestamp |-> event.timestamp,
         action |-> IF matched THEN "DELETE" ELSE "FLAG",
         sql_row_id |-> IF matched THEN Get(matched_row, "ID") ELSE None,
         sql_before |-> IF matched THEN _clean_row(matched_row) ELSE None,
         sql_after |-> None,
         repeat_count |-> Len(group),
         occurrence |-> k + 1,
         first_line_number |-> group[1].line_number,
         mmi_evidence |-> Raws(Take(group, 10)),
         mmi_line_numbers |-> LineNumbers(Take(group, 10)),
         status |-> "pending"]

\* the proposals of one group: none when it has fewer than 3 events
RepeatedGroup(group, sql_data) ==
    LET timestamp == group[1].timestamp
        close(row) == _times_close(_extract_time(Get(row, "DATE")), timestamp, 60)
    IN  IF Len(group) >= 3
        THEN Let(SelectSeq(sql_data, close), LAMBDA affected_rows :
                 [k \in 1..(Len(group) - 1) |-> RepeatedOf(group, affected_rows, k)])
        ELSE <<>>

\* the outer while loop of find_repeated_inserts, i 1-based
RECURSIVE RepeatedFrom(_, _, _)
RepeatedFrom(insert_events, sql_data, i) ==
    IF i > Len(insert_events) THEN <<>>
    ELSE Let(GroupEnd(insert_events, i, i + 1), LAMBDA j :
             RepeatedGroup(SubSeq(insert_events, i, j - 1), sql_data)
             \o RepeatedFrom(insert_events, sql_data, j))

find_repeated_inserts(mmi_events, sql_data) ==
    LET is_insert(e) == e.event_type = "SQL_INSERT"
    IN  Let(SelectSeq(mmi_events, is_insert), LAMBDA insert_events :
            IF Len(insert_events) < 2 THEN <<>>
            ELSE RepeatedFrom(insert_events, sql_data, 1))

\* a or b of Python
Or(a, b) == IF Truthy(a) THEN a ELSE b

\* the position after the run of \d* that starts at i
RECURSIVE DigitRunEnd(_, _)
DigitRunEnd(s, i) == IF i <= Len(s) /\ IsDigit(Ch(s, i)) THEN DigitRunEnd(s, i + 1) ELSE i

\* the position after the run of [:\s]* that starts at i
RECURSIVE SkipColonsSpaces(_, _)
SkipColonsSpaces(s, i) ==
    IF i <= Len(s) /\ (Ch(s, i) = ":" \/ IsSpace(Ch(s, i)))
    THEN SkipColonsSpaces(s, i + 1) ELSE i

\* where the digits of group 1 start when one of the four patterns of
\* _extract_error_code matches at position i, 0 when it does not:
\* 1 ERROR[_:]?\s*(\d+) and 2 ALARM[:\s]*(\d+), both ignoring case,
\* 3 \[(\d{4,})\] and 4 ^\s*(\d{4,})
ErrorCodeAt(s, pattern, i) ==
    LET d == CASE pattern = 1 ->
                    IF i + 4 > Len(s) \/ Upper(SubSeq(s, i, i + 4)) # "ERROR" THEN 0
                    ELSE SkipSpaces(s, IF i + 5 <= Len(s) /\ Ch(s, i + 5) \in {"_", ":"}
                                       THEN i + 6 ELSE i + 5)
               [] pattern = 2 ->
                    IF i + 4 > Len(s) \/ Upper(SubSeq(s, i, i + 4)) # "ALARM" THEN 0
                    ELSE SkipColonsSpaces(s, i + 5)
               [] pattern = 3 -> IF Ch(s, i) = "[" THEN i + 1 ELSE 0
               [] OTHER -> IF i = 1 THEN SkipSpaces(s, 1) ELSE 0
        e == DigitRunEnd(s, d)
    IN  IF d = 0 \/ e = d THEN 0
        ELSE IF pattern \in {3, 4} /\ e - d < 4 THEN 0
        ELSE IF pattern = 3 /\ ~(e <= Len(s) /\ Ch(s, e) = "]") THEN 0
        ELSE d

\* re.search of one pattern: group 1 of the leftmost match, "" for no match
ErrorCodeSearch(s, pattern) ==
    LET hits == {i \in 1..Len(s) : ErrorCodeAt(s, pattern, i) # 0}
    IN  IF hits = {} THEN ""
        ELSE Let(ErrorCodeAt(s, pattern, CHOOSE i \in hits : \A k \in hits : i <= k),
                 LAMBDA d : SubSeq(s, d, DigitRunEnd(s, d) - 1))

\* the first pattern that matches decides
RECURSIVE ErrorCodeFrom(_, _)
ErrorCodeFrom(content, pattern) ==
    IF pattern > 4 THEN ""
    ELSE Let(ErrorCodeSearch(content, pattern), LAMBDA code :
             IF code # "" THEN code ELSE ErrorCodeFrom(content, pattern + 1))

_extract_error_code(content) == IF content = "" THEN "" ELSE ErrorCodeFrom(content, 1)

\* `error_code in content` raises TypeError when error_code is not a str
CodeInContent(error_code, content) ==
    IF Truthy(error_code) THEN error_code.t = "str" /\ Contains(content, error_code.s)
    ELSE TRUE

\* ok = FALSE: the TypeError of `error_code in content`, raised at the first event
\* after the timestamp when error_code is a number
_find_error_clear_events(events, error_code, after_timestamp) ==
    Let(_normalize_time(after_timestamp), LAMBDA after_secs :
        LET later(e) == _normalize_time(e.timestamp) > after_secs
            clears(e) == /\ later(e)
                         /\ HasClearWord(Upper(e.content))
                         /\ CodeInContent(error_code, Upper(e.content))
        IN  [ok |-> ~(Truthy(error_code) /\ error_code.t # "str"
                      /\ \E i \in 1..Len(events) : later(events[i])),
             events |-> SelectSeq(events, clears)])

\* the locals of one iteration of the loop of find_error_event_mismatches over the
\* rows, i 0-based as enumerate counts
ErrorRow(row, i) ==
    Let(Or(Or(Get(row, "ERROR_CODE"), Get(row, "ALARM_CODE")), Get(row, "CODE")),
        LAMBDA error_code :
    Let(Or(Or(Get(row, "SET_TIME"), Get(row, "START_TIME")), Get(row, "OCCUR_TIME")),
        LAMBDA set_time :
    Let(_extract_time(set_time), LAMBDA timestamp :
        [row_id |-> Or(Get(row, "ID"), IntV(i)),
         error_code |-> error_code,
         set_time |-> set_time,
         clear_time |-> Or(Or(Get(row, "CLEAR_TIME"), Get(row, "END_TIME")),
                           Get(row, "RESET_TIME")),
         timestamp |-> timestamp,
         key |-> PyStr(error_code) \o "_" \o Take(timestamp, 5),
         dup_key |-> PyStr(error_code) \o "_" \o timestamp])))

\* mmi_error_map.get(key, []): the error events of the log filed under key, in log order
ErrorEventsAt(mmi_events, key) ==
    LET filed(e) == /\ e.event_type = "ERROR" \/ Contains(Upper(e.content), "ERROR")
                    /\ _extract_error_code(e.content) \o "_" \o Take(e.timestamp, 5) = key
    IN  SelectSeq(mmi_events, filed)

\* the proposals of row i (1-based here) of the error table; ok = FALSE when the
\* search for its clear events raises
ErrorMismatchOf(mmi_events, sql_error_data, i) ==
    Let(ErrorRow(sql_error_data[i], i - 1), LAMBDA r :
    Let({j \in 1..(i - 1) : ErrorRow(sql_error_data[j], j - 1).dup_key = r.dup_key},
        LAMBDA earlier :
    Let(ErrorEventsAt(mmi_events, r.key), LAMBDA mmi_matches :
    Let(Truthy(r.set_time) /\ (IsNa(r.clear_time) \/ r.clear_time = Str("")),
        LAMBDA no_clear :
    Let(IF no_clear THEN _find_error_clear_events(mmi_events, r.error_code, r.timestamp)
        ELSE [ok |-> TRUE, events |-> <<>>], LAMBDA clear :
    LET row == sql_error_data[i]
        prev_row_id ==
            ErrorRow(sql_error_data[CHOOSE j \in earlier : \A k \in earlier : j <= k],
                     (CHOOSE j \in earlier : \A k \in earlier : j <= k) - 1).row_id
        suggested_clear_time ==
            IF Len(clear.events) > 0 THEN Str(clear.events[1].timestamp) ELSE None
        sql_after ==
            IF Truthy(suggested_clear_time)
            THEN DictSet(row, "CLEAR_TIME", suggested_clear_time) ELSE row
        head == [issue_type |-> "ERROR_EVENT_MISMATCH", timestamp |-> r.timestamp,
                 sql_row_id |-> r.row_id, sql_before |-> _clean_row(row),
                 status |-> "pending"]
        at == "Error " \o PyStr(r.error_code) \o " at " \o r.timestamp
    IN  [ok |-> clear.ok,
         changes |->
            (IF earlier # {}
             THEN << head @@
                     [id |-> "error_dup_sql_" \o PyStr(r.row_id),
                      description |-> "Error " \o PyStr(r.error_code)
                                      \o " logged twice in SQL at " \o r.timestamp
                                      \o " (duplicate of row " \o PyStr(prev_row_id) \o ")",
                      action |-> "DELETE",
                      sql_after |-> None,
                      duplicate_of |-> prev_row_id,
                      mismatch_type |-> "DUPLICATE_IN_SQL",
                      mmi_evidence |-> Raws(Take(mmi_matches, 5)),
                      mmi_line_numbers |-> LineNumbers(Take(mmi_matches, 5))] >>
             ELSE <<>>)
            \o (IF Len(mmi_matches) = 0
                THEN << head @@
                        [id |-> "error_sql_only_" \o PyStr(r.row_id),
                         description |-> at \o " exists in SQL but not found in MMI log",
                         action |-> "FLAG",
                         sql_after |-> None,
                         mismatch_type |-> "SQL_ONLY",
                         mmi_evidence |-> <<>>,
                         mmi_line_numbers |-> <<>>] >>
                ELSE <<>>)
            \o (IF no_clear
                THEN << head @@
                        [id |-> "error_no_clear_" \o PyStr(r.row_id),
                         description |-> at \o " has no clear time in SQL",
                         action |-> IF Truthy(suggested_clear_time) THEN "UPDATE"
                                    ELSE "FLAG",
                         sql_after |-> IF Truthy(suggested_clear_time)
                                       THEN _clean_row(sql_after) ELSE None,
                         suggested_clear_time |-> suggested_clear_time,
                         mismatch_type |-> "MISSING_CLEAR_TIME",
                         mmi_evidence |-> Raws(Take(clear.events, 3)),
                         mmi_line_numbers |-> LineNumbers(Take(clear.events, 3))] >>
                ELSE <<>>)])))))

\* the loop over the rows from row i on; the exception of a row ends the run
RECURSIVE ErrorMismatchFrom(_, _, _)
ErrorMismatchFrom(mmi_events, sql_error_data, i) ==
    IF i > Len(sql_error_data) THEN [ok |-> TRUE, changes |-> <<>>]
    ELSE Let(ErrorMismatchOf(mmi_events, sql_error_data, i), LAMBDA here :
             IF ~here.ok THEN [ok |-> FALSE, changes |-> <<>>]
             ELSE Let(ErrorMismatchFrom(mmi_events, sql_error_data, i + 1), LAMBDA rest :
                      [ok |-> rest.ok,
                       changes |-> IF rest.ok THEN here.changes \o rest.changes ELSE <<>>]))

\* ok = FALSE: the run raised TypeError and returned nothing
find_error_event_mismatches(mmi_events, sql_error_data) ==
    ErrorMismatchFrom(mmi_events, sql_error_data, 1)

\* `sql_after = row` followed by `sql_after[key] = value`: the assignment reaches row
AssignedInPlace(row, key, value) == DictSet(row, key, value)

\* what row is after `sql_after = dict(row)` followed by `sql_after[key] = value`:
\* dict(row) is a copy, and the assignment does not reach row
AssignedToCopy(row, key, value) == row

\* sql_data as find_missing_psa_tape leaves it
RowsAfterMissingPsaTape(mmi_events, sql_data) ==
    [i \in 1..Len(sql_data) |->
        Let(MissingPsaTapeOf(mmi_events, sql_data[i]), LAMBDA found :
            IF found = <<>> THEN sql_data[i]
            ELSE AssignedToCopy(sql_data[i], "PSA_TAPE_PIC", found[1].suggested_value))]

\* a row as one component's check of find_cam2_index_mismatches leaves it
RowAfterIndexMismatch(mmi_events, row, checked, tag, label, sn_field, psa_field) ==
    Let(IndexMismatchOf(mmi_events, checked, tag, label, sn_field, psa_field), LAMBDA found :
        IF found = <<>> THEN row
        ELSE AssignedToCopy(row, psa_field, found[1].sql_after[psa_field]))

\* sql_data as find_cam2_index_mismatches leaves it (the indices of both components
\* are extracted before the first check)
RowsAfterIndexMismatches(mmi_events, sql_data) ==
    [i \in 1..Len(sql_data) |->
        RowAfterIndexMismatch(mmi_events,
            RowAfterIndexMismatch(mmi_events, sql_data[i], sql_data[i], "pb", "Power Board",
                                  "POWER_BOARD_SN_PIC", "POWER_BOARD_PSA_PIC"),
            sql_data[i], "bt", "Battery", "BATTERY_SN_PIC", "BATTERY_PSA_PIC")]

\* sql_error_data as find_error_event_mismatches leaves it
RowsAfterErrorMismatches(mmi_events, sql_error_data) ==
    [i \in 1..Len(sql_error_data) |->
        Let(ErrorMismatchOf(mmi_events, sql_error_data, i).changes, LAMBDA found :
            IF \E k \in 1..Len(found) : found[k].action = "UPDATE"
            THEN AssignedToCopy(sql_error_data[i], "CLEAR_TIME",
                                found[Len(found)].suggested_clear_time)
            ELSE sql_error_data[i])]

\* find_all_issues as the cleanup router calls it: without sql_error_data, so that
\* find_error_event_mismatches does not run
find_all_issues(mmi_events, sql_data) ==
    find_missing_psa_tape(mmi_events, sql_data)
    \o find_duplicate_rows(mmi_events, sql_data)
    \o find_orphan_rows(mmi_events, sql_data)
    \o find_cam2_index_mismatches(mmi_events, sql_data)
    \o find_repeated_inserts(mmi_events, sql_data)

\* find_all_issues with all three arguments; sql_error_data = <<>> stands for None and
\* for the empty list alike (`if sql_error_data`).  ok = FALSE: the exception of
\* find_error_event_mismatches leaves the call
find_all_issues_with(mmi_events, sql_data, sql_error_data) ==
    Let(IF sql_error_data # <<>>
        THEN find_error_event_mismatches(mmi_events, sql_error_data)
        ELSE [ok |-> TRUE, changes |-> <<>>], LAMBDA errors :
        [ok |-> errors.ok,
         changes |-> IF ~errors.ok THEN <<>>
                     ELSE find_missing_psa_tape(mmi_events, sql_data)
                          \o find_duplicate_rows(mmi_events, sql_data)
                          \o find_orphan_rows(mmi_events, sql_data)
                          \o find_cam2_index_mismatches(mmi_events, sql_data)
                          \o errors.changes
                          \o find_repeated_inserts(mmi_events, sql_data)])

(***************************************************************************)
(* utils/sql_parser.py.  An uploaded table file is the DataFrame pandas    *)
(* reads from it (its columns and its rows, an empty cell being NaN), or   *)
(* bytes that neither read_excel nor read_csv accepts.                     *)
(***************************************************************************)

\* _detect_and_read: ok = FALSE is ValueError("Could not parse file as Excel or CSV")
_detect_and_read(content) == [ok |-> content.parses, df |-> content.df]

\* a column pandas holds as float64: it has rows and every cell of it is NaN
IsFloatColumn(df, c) == Len(df.rows) > 0 /\ \A i \in 1..Len(df.rows) : df.rows[i][c] = NaN

\* df.where(pd.notnull(df), None).to_dict(orient="records").  In an object column NaN
\* becomes None.  In a float64 column the result depends on the installed pandas:
\* None (keep_nan = FALSE), or NaN again because None is coerced back (keep_nan = TRUE).
parse_sql_export(df, keep_nan) ==
    [i \in 1..Len(df.rows) |->
        [c \in DOMAIN df.rows[i] |->
            IF df.rows[i][c] = NaN /\ ~(keep_nan /\ IsFloatColumn(df, c))
            THEN None ELSE df.rows[i][c]]]

(***************************************************************************)
(* The uploads the model draws from                                        *)
(***************************************************************************)

Columns ==
    << "ID", "DATE", "PSA_TAPE_PIC", "POWER_BOARD_SN", "POWER_BOARD_SN_PIC",
       "POWER_BOARD_PSA_PIC", "BATTERY_SN", "BATTERY_SN_PIC", "BATTERY_PSA_PIC" >>

LogFiles ==
    << [filename |-> "line_a.log",
        content |-> "[10:00:00]MMI START\n\n[10:00:02]+4,OK,IMG_0012\n[10:00:05]insert into T values('PB001','BT001')\n----\n[10:00:05]insert into T values('PB001','BT001')"],
       [filename |-> "line_c.log",
        content |-> "[10:00:01]+2,OK,PB001,CAM2_0005\r[10:00:04]insert into T values('PB001')\r[10:00:05]insert into T values('PB001')\n"],
       [filename |-> "noise.log",
        content |-> "header\n\n"],
       [filename |-> "line_b.log",
        content |-> "[9:45:18 AM]+4,OK,IMG_0012\r\nnoise\r\n[9:45:29 AM]INSERT INTO T VALUES ('PB009')\r\n[9:45:31 AM]INSERT INTO T VALUES ('PB009')\r\n"],
       [filename |-> "line_e.log",
        content |-> "[10:00:03]insert into T values('X')\r[10:00:04]insert into T values('X')\n\r[10:00:05] +4,OK\n[10:00:06]insert into T values('X')\n"] >>

TableFiles ==
    << [filename |-> "export_a.csv", parses |-> TRUE,
        df |-> [columns |-> Columns,
                    rows |-> << [ID |-> IntV(1), DATE |-> Str("2025-12-17 10:00:05"),
                               PSA_TAPE_PIC |-> Str("IMG_0001"),
                               POWER_BOARD_SN |-> Str("PB001"),
                               POWER_BOARD_SN_PIC |-> Str("CAM2_0005"),
                               POWER_BOARD_PSA_PIC |-> Str("CAM2_0011"),
                               BATTERY_SN |-> Str("BT001"),
                               BATTERY_SN_PIC |-> Str("CAM2_0006"),
                               BATTERY_PSA_PIC |-> Str("CAM2_0012")],
                              [ID |-> IntV(2), DATE |-> Str("2025-12-17 10:00:05"),
                               PSA_TAPE_PIC |-> Str("IMG_0001"),
                               POWER_BOARD_SN |-> Str("PB001"),
                               POWER_BOARD_SN_PIC |-> Str("CAM2_0005"),
                               POWER_BOARD_PSA_PIC |-> Str("CAM2_0011"),
                               BATTERY_SN |-> Str("BT001"),
                               BATTERY_SN_PIC |-> Str("CAM2_0006"),
                               BATTERY_PSA_PIC |-> Str("CAM2_0012")],
                              [ID |-> IntV(3), DATE |-> Str("2025-12-17 10:00:30"),
                               PSA_TAPE_PIC |-> NaN, POWER_BOARD_SN |-> Str("PB002"),
                               POWER_BOARD_SN_PIC |-> Str("CAM2_0005"),
                               POWER_BOARD_PSA_PIC |-> Str("CAM2_0020"),
                               BATTERY_SN |-> Str("BT002"),
                               BATTERY_SN_PIC |-> Str("CAM2_0006"),
                               BATTERY_PSA_PIC |-> Str("CAM2_0012")] >>]],
       [filename |-> "empty.csv", parses |-> TRUE,
        df |-> [columns |-> Columns,
                    rows |-> <<>>]],
       [filename |-> "export_b.xlsx", parses |-> TRUE,
        df |-> [columns |-> Columns,
                    rows |-> << [ID |-> IntV(4), DATE |-> Timestamp("2025-12-17", "09:45:30"),
                               PSA_TAPE_PIC |-> Str("IMG_0003"), POWER_BOARD_SN |-> NaN,
                               POWER_BOARD_SN_PIC |-> NaN, POWER_BOARD_PSA_PIC |-> NaN,
                               BATTERY_SN |-> NaN, BATTERY_SN_PIC |-> NaN,
                               BATTERY_PSA_PIC |-> Str("CAM2_0040")],
                              [ID |-> IntV(5), DATE |-> Timestamp("2025-12-17", "09:45:30"),
                               PSA_TAPE_PIC |-> NaN, POWER_BOARD_SN |-> Str("PB005"),
                               POWER_BOARD_SN_PIC |-> Str("SN_0001"),
                               POWER_BOARD_PSA_PIC |-> Str("PSA_0007"), BATTERY_SN |-> NaN,
                               BATTERY_SN_PIC |-> NaN, BATTERY_PSA_PIC |-> NaN] >>]],
       [filename |-> "export_c.csv", parses |-> TRUE,
        df |-> [columns |-> Columns,
                    rows |-> << [ID |-> IntV(6), DATE |-> Str("2025-12-17 15:00:00"),
                               PSA_TAPE_PIC |-> NaN, POWER_BOARD_SN |-> Str("PB006"),
                               POWER_BOARD_SN_PIC |-> Str("CAM2_0005"),
                               POWER_BOARD_PSA_PIC |-> Str("CAM2_0011"),
                               BATTERY_SN |-> Str("BT006"),
                               BATTERY_SN_PIC |-> Str("CAM2_0006"),
                               BATTERY_PSA_PIC |-> Str("CAM2_0012")] >>]],
       [filename |-> "export_e.csv", parses |-> TRUE,
        df |-> [columns |-> Columns,
                    rows |-> << [ID |-> IntV(7), DATE |-> Str("2025-12-17 10:00:04"),
                               PSA_TAPE_PIC |-> Str("IMG_0007"),
                               POWER_BOARD_SN |-> Str("PB007"),
                               POWER_BOARD_SN_PIC |-> Str("A_0001"),
                               POWER_BOARD_PSA_PIC |-> Str("A_0007"),
                               BATTERY_SN |-> Str("BT007"),
                               BATTERY_SN_PIC |-> Str("B_0002"),
                               BATTERY_PSA_PIC |-> Str("PSA_0009")],
                              [ID |-> IntV(8), DATE |-> Str("2025-12-17 10:00:50"),
                               PSA_TAPE_PIC |-> Str("IMG_0008"),
                               POWER_BOARD_SN |-> Str("PB008"),
                               POWER_BOARD_SN_PIC |-> Str("A_0007"),
                               POWER_BOARD_PSA_PIC |-> Str("A_0013"), BATTERY_SN |-> NaN,
                               BATTERY_SN_PIC |-> NaN, BATTERY_PSA_PIC |-> NaN] >>]] >>

\* a file that no reader accepts (an empty file, for one)
GarbageFile == [filename |-> "broken.xlsx", parses |-> FALSE, df |-> [columns |-> <<>>, rows |-> <<>>]]

\* how many of LogFiles and of TableFiles the uploads are drawn from
NumLogs == 3

NumTables == 3

Min(a, b) == IF a < b THEN a ELSE b

LogIds == 1..Min(NumLogs, Len(LogFiles))

TableIds == 1..Min(NumTables, Len(TableFiles))

\* ids no analysis of these uploads produces
UnknownIds == {"duplicate_999"}

\* parse_mmi_log and find_all_issues are functions of their arguments alone, so their
\* values on the uploads above are computed once and looked up by argument.  The
\* store only ever holds events and rows of these uploads.
ParsedLogs ==
    {[content |-> LogFiles[i].content, events |-> parse_mmi_log(LogFiles[i].content)] :
        i \in DOMAIN LogFiles}

ParsedLog(content) ==
    IF \E r \in ParsedLogs : r.content = content
    THEN (CHOOSE r \in ParsedLogs : r.content = content).events
    ELSE parse_mmi_log(content)

AnalysisInput ==
    {[mmi_events |-> ParsedLog(LogFiles[k[1]].content),
      sql_data |-> parse_sql_export(TableFiles[k[2]].df, k[3])] :
        k \in (DOMAIN LogFiles) \X (DOMAIN TableFiles) \X BOOLEAN}

AnalysisResult ==
    {[mmi_events |-> k.mmi_events, sql_data |-> k.sql_data,
      changes |-> find_all_issues(k.mmi_events, k.sql_data)] : k \in AnalysisInput}

Issues(mmi_events, sql_data) ==
    LET hit(r) == r.mmi_events = mmi_events /\ r.sql_data = sql_data
    IN  (CHOOSE r \in AnalysisResult : hit(r)).changes

(***************************************************************************)
(* routers/cleanup.py.  Each handler is an operator from the store (and    *)
(* the request) to the store after the request and the response.           *)
(***************************************************************************)

\* the module-level store dict as created at import
InitialStore ==
    [mmi_raw |-> "", mmi_events |-> <<>>, mmi_filename |-> "",
     sql_raw |-> None, sql_data |-> <<>>, sql_df |-> None, sql_filename |-> "",
     changes |-> <<>>]

\* what a handler leaves: the store and the response (code 200 and the returned dict,
\* or the status code and detail of the exception raised)
Outcome(s, code, body) == [store |-> s, code |-> code, body |-> body]

HTTPException(s, status_code, detail) == Outcome(s, status_code, [detail |-> detail])

\* event_counts / by_type: how many elements of seq carry each value of key
CountBy(seq, key) ==
    [v \in {seq[i][key] : i \in 1..Len(seq)} |->
        Cardinality({i \in 1..Len(seq) : seq[i][key] = v})]

\* by_status of analyze
ByStatus(changes) ==
    [st \in {"pending", "approved", "rejected"} |->
        Cardinality({i \in 1..Len(changes) : changes[i].status = st})]

\* upload_mmi with the reset of the ledger left out
upload_mmi_keeping_ledger(s, file) ==
    Let(ParsedLog(file.content), LAMBDA events :
        Outcome([s EXCEPT !.mmi_raw = file.content,
                          !.mmi_events = events,
                          !.mmi_filename = file.filename],
                200,
                [filename |-> file.filename,
                 total_events |-> Len(events),
                 total_lines |-> Len(Split(file.content, "\n")),
                 event_types |-> CountBy(events, "event_type")]))

upload_mmi(s, file) ==
    LET content_str == file.content
        events == ParsedLog(content_str)
    IN  Outcome([s EXCEPT !.mmi_raw = content_str,
                          !.mmi_events = events,
                          !.mmi_filename = file.filename,
                          !.changes = <<>>],
                200,
                [filename |-> file.filename,
                 total_events |-> Len(events),
                 total_lines |-> Len(Split(content_str, "\n")),
                 event_types |-> CountBy(events, "event_type")])

\* the bytes of an uploaded table file
Bytes(file) == [parses |-> file.parses, df |-> file.df]

\* upload_sql without the reset of the changes
upload_sql_keeping_ledger(s, file, keep_nan) ==
    LET content == Bytes(file)
        read == _detect_and_read(content)
    IN  IF ~read.ok
        THEN Outcome([s EXCEPT !.sql_raw = content], 500,
                     [detail |-> "Could not parse file as Excel or CSV"])
        ELSE Outcome([s EXCEPT !.sql_raw = content,
                               !.sql_data = parse_sql_export(read.df, keep_nan),
                               !.sql_df = read.df,
                               !.sql_filename = file.filename],
                     200,
                     [filename |-> file.filename,
                      total_rows |-> Len(read.df.rows),
                      columns |-> read.df.columns])

\* parse_sql_export raises before anything but sql_raw is assigned; the unhandled
\* ValueError is answered with status 500
upload_sql(s, file, keep_nan) ==
    LET content == Bytes(file)
        read == _detect_and_read(content)
    IN  IF ~read.ok
        THEN Outcome([s EXCEPT !.sql_raw = content], 500,
                     [detail |-> "Could not parse file as Excel or CSV"])
        ELSE Outcome([s EXCEPT !.sql_raw = content,
                               !.sql_data = parse_sql_export(read.df, keep_nan),
                               !.sql_df = read.df,
                               !.sql_filename = file.filename,
                               !.changes = <<>>],
                     200,
                     [filename |-> file.filename,
                      total_rows |-> Len(read.df.rows),
                      columns |-> read.df.columns])

\* analyze with the check of the table rows left out
analyze_without_table_check(s) ==
    IF s.mmi_events = <<>> THEN HTTPException(s, 400, "No MMI log uploaded")
    ELSE Let(Issues(s.mmi_events, s.sql_data), LAMBDA changes :
             Outcome([s EXCEPT !.changes = changes], 200,
                     [total_changes |-> Len(changes),
                      by_type |-> CountBy(changes, "issue_type"),
                      by_status |-> ByStatus(changes)]))

analyze(s) ==
    IF s.mmi_events = <<>> THEN HTTPException(s, 400, "No MMI log uploaded")
    ELSE IF s.sql_data = <<>> THEN HTTPException(s, 400, "No SQL data uploaded")
    ELSE Let(Issues(s.mmi_events, s.sql_data), LAMBDA changes :
             Outcome([s EXCEPT !.changes = changes], 200,
                     [total_changes |-> Len(changes),
                      by_type |-> CountBy(changes, "issue_type"),
                      by_status |-> ByStatus(changes)]))

\* the position of the first change with this id, 0 when the loop finds none
RECURSIVE FirstWithId(_, _, _)
FirstWithId(changes, change_id, i) ==
    IF i > Len(changes) THEN 0
    ELSE IF changes[i].id = change_id THEN i
    ELSE FirstWithId(changes, change_id, i + 1)

get_change(s, change_id) ==
    LET i == FirstWithId(s.changes, change_id, 1)
    IN  IF i = 0 THEN HTTPException(s, 404, "Change not found")
        ELSE Outcome(s, 200, [change |-> s.changes[i]])

\* the loop without its return: the status of every change is set
SetStatus_of_every_change(s, change_id, status) ==
    LET i == FirstWithId(s.changes, change_id, 1)
    IN  IF i = 0 THEN HTTPException(s, 404, "Change not found")
        ELSE LET t == [s EXCEPT !.changes = [k \in 1..Len(s.changes) |->
                                                [s.changes[k] EXCEPT !.status = status]]]
             IN  Outcome(t, 200, [change |-> t.changes[i]])

\* the body shared by approve_change and reject_change
SetStatus(s, change_id, status) ==
    LET i == FirstWithId(s.changes, change_id, 1)
    IN  IF i = 0 THEN HTTPException(s, 404, "Change not found")
        ELSE LET t == [s EXCEPT !.changes[i].status = status]
             IN  Outcome(t, 200, [change |-> t.changes[i]])

\* approve_change as a toggle: approving an approved change makes it pending again
approve_change_toggling(s, change_id) ==
    LET i == FirstWithId(s.changes, change_id, 1)
    IN  IF i = 0 THEN HTTPException(s, 404, "Change not found")
        ELSE SetStatus(s, change_id,
                       IF s.changes[i].status = "approved" THEN "pending" ELSE "approved")

approve_change(s, change_id) == SetStatus(s, change_id, "approved")

\* reject_change without the 404: an unknown id is answered like a known one
reject_change_without_404(s, change_id) ==
    LET r == SetStatus(s, change_id, "rejected")
    IN  IF r.code = 404 THEN Outcome(s, 200, [change |-> None]) ELSE r

reject_change(s, change_id) == SetStatus(s, change_id, "rejected")

\* the body shared by approve_all_changes and reject_all_changes
SetAllPending(s, status) ==
    Outcome([s EXCEPT !.changes =
                [i \in 1..Len(s.changes) |->
                    IF s.changes[i].status = "pending"
                    THEN [s.changes[i] EXCEPT !.status = status]
                    ELSE s.changes[i]]],
            200,
            [count |-> Cardinality({i \in 1..Len(s.changes) :
                                       s.changes[i].status = "pending"})])

\* approve_all_changes without the test for pending: every change is approved and counted
approve_all_whatever_status(s) ==
    Outcome([s EXCEPT !.changes =
                [i \in 1..Len(s.changes) |-> [s.changes[i] EXCEPT !.status = "approved"]]],
            200,
            [count |-> Len(s.changes)])

\* returns {"approved_count": count}
approve_all_changes(s) == SetAllPending(s, "approved")

\* returns {"rejected_count": count}
reject_all_changes(s) == SetAllPending(s, "rejected")

\* rows_to_delete without the test for approved
RowsToDeleteWhateverStatus(changes) ==
    {changes[i].sql_row_id : i \in {j \in 1..Len(changes) : changes[j].action = "DELETE"}}

\* rows_to_delete of export_sql: the targets of the approved DELETE changes
RowsToDelete(changes) ==
    {changes[i].sql_row_id :
        i \in {j \in 1..Len(changes) :
                  changes[j].status = "approved" /\ changes[j].action = "DELETE"}}

\* bool(change.get("sql_after")): a dict with at least one key
HasAfter(change) == change.sql_after # None /\ DOMAIN change.sql_after # {}

\* the fields of an UPDATE without the comparison with sql_before: all of sql_after
AllAfterFields(change) == DOMAIN change.sql_after

\* the fields one approved UPDATE change adds to updates[row_id]: those keys of
\* sql_after whose value is != the value sql_before has for the key
ChangedFields(change) ==
    {k \in DOMAIN change.sql_after :
        ~PyEq(Get(change.sql_before, k), change.sql_after[k])}

\* the updates dict of export_sql after the changes seen so far, as a function from
\* row ids to {field: new_value}; a later change overwrites an earlier one's field
RECURSIVE Updates(_, _)
Updates(changes, n) ==
    IF n = 0 THEN <<>>
    ELSE LET acc == Updates(changes, n - 1)
             change == changes[n]
             row_id == change.sql_row_id
             old == IF row_id \in DOMAIN acc THEN acc[row_id] ELSE <<>>
             fields == ChangedFields(change)
             new == [k \in DOMAIN old \cup fields |->
                        IF k \in fields THEN change.sql_after[k] ELSE old[k]]
         IN  IF change.status = "approved" /\ change.action = "UPDATE" /\ HasAfter(change)
             THEN [r \in DOMAIN acc \cup {row_id} |-> IF r = row_id THEN new ELSE acc[r]]
             ELSE acc

\* df.loc[df["ID"] == row_id, field] = value, for every row_id and field of updates
ApplyUpdates(row, updates) ==
    LET hits == {r \in DOMAIN updates : PyEq(Get(row, "ID"), r)}
        fields == UNION {DOMAIN updates[r] : r \in hits}
    IN  [k \in DOMAIN row \cup fields |->
            IF k \in fields
            THEN updates[CHOOSE r \in hits : k \in DOMAIN updates[r]][k]
            ELSE row[k]]

\* the cleaned DataFrame export_sql writes to Excel
CleanedTable(df, changes) ==
    LET updates == Updates(changes, Len(changes))
        rows_to_delete == RowsToDelete(changes)
        updated == [i \in 1..Len(df.rows) |-> ApplyUpdates(df.rows[i], updates)]
        kept(row) == Get(row, "ID") \notin rows_to_delete
    IN  [columns |-> df.columns, rows |-> SelectSeq(updated, kept)]

export_sql(s) ==
    IF s.sql_df = None THEN HTTPException(s, 400, "No SQL data to export")
    ELSE Outcome(s, 200,
                 [filename |-> Replace(s.sql_filename, ".xlsx", "_cleaned.xlsx"),
                  table |-> CleanedTable(s.sql_df, s.changes)])

\* lines_to_remove with the first evidence line removed too
LinesToRemoveWithFirst(changes) ==
    UNION {{changes[i].mmi_line_numbers[n] : n \in 1..Len(changes[i].mmi_line_numbers)} :
             i \in {j \in 1..Len(changes) :
                       /\ changes[j].status = "approved"
                       /\ changes[j].issue_type = "DUPLICATE_INSERT"
                       /\ Len(changes[j].mmi_line_numbers) >= 2}}

\* lines_to_remove of export_mmi
LinesToRemove(changes) ==
    UNION {{changes[i].mmi_line_numbers[n] : n \in 2..Len(changes[i].mmi_line_numbers)} :
             i \in {j \in 1..Len(changes) :
                       /\ changes[j].status = "approved"
                       /\ changes[j].issue_type = "DUPLICATE_INSERT"
                       /\ Len(changes[j].mmi_line_numbers) >= 2}}

\* the filter loop of export_mmi over lines[i..], i 1-based here: line i has number i
RECURSIVE CleanedLines(_, _, _)
CleanedLines(lines, lines_to_remove, i) ==
    IF i > Len(lines) THEN <<>>
    ELSE (IF i \notin lines_to_remove THEN <<lines[i]>> ELSE <<>>)
         \o CleanedLines(lines, lines_to_remove, i + 1)

\* the line list export_mmi works on
ExportLines(mmi_raw) == Split(mmi_raw, "\n")

export_mmi(s) ==
    IF s.mmi_raw = "" THEN HTTPException(s, 400, "No MMI log to export")
    ELSE Outcome(s, 200,
                 [filename |-> Replace(s.mmi_filename, ".log", "_cleaned.log"),
                  content |-> Join(CleanedLines(ExportLines(s.mmi_raw),
                                                LinesToRemove(s.changes), 1), "\n")])

(***************************************************************************)
(* The state machine: one action per endpoint                              *)
(***************************************************************************)

VARIABLES
    store,    \* the module-level store of routers/cleanup.py
    resp,     \* the last request and its response: op, arg, code, body
    before    \* history: what the ledger was like before the last request

vars == <<store, resp, before>>

\* the history kept of a ledger when a request naming arg arrives: whether it held
\* proposals, whether any of them was decided, and the status of the one named
Ledger(changes, arg) ==
    LET named == {i \in 1..Len(changes) : changes[i].id = arg}
    IN  [any |-> Len(changes) > 0,
         decided |-> \E i \in 1..Len(changes) : changes[i].status # "pending",
         target |-> IF named = {} THEN ""
                    ELSE changes[CHOOSE i \in named : \A j \in named : i <= j].status]

Init ==
    /\ store = InitialStore
    /\ resp = [op |-> "start", arg |-> "", code |-> 200, body |-> <<>>]
    /\ before = Ledger(<<>>, "")

\* the request op(arg) is served with outcome r
Serve(op, arg, r) ==
    /\ store' = r.store
    /\ resp' = [op |-> op, arg |-> arg, code |-> r.code, body |-> r.body]
    /\ before' = Ledger(store.changes, arg)

\* the ids a request may name: those of the ledger and unknown ones
RequestIds == {store.changes[i].id : i \in 1..Len(store.changes)} \cup UnknownIds

UploadMmi == \E i \in LogIds : Serve("upload_mmi", LogFiles[i].filename, upload_mmi(store, LogFiles[i]))

UploadSql ==
    \E file \in {TableFiles[i] : i \in TableIds} \cup {GarbageFile}, keep_nan \in BOOLEAN :
        Serve("upload_sql", file.filename, upload_sql(store, file, keep_nan))

Analyze == Serve("analyze", "", analyze(store))

GetChange == \E id \in RequestIds : Serve("get", id, get_change(store, id))

Approve == \E id \in RequestIds : Serve("approve", id, approve_change(store, id))

Reject == \E id \in RequestIds : Serve("reject", id, reject_change(store, id))

ApproveAll == Serve("approve_all", "", approve_all_changes(store))

RejectAll == Serve("reject_all", "", reject_all_changes(store))

ExportSql == Serve("export_sql", "", export_sql(store))

ExportMmi == Serve("export_mmi", "", export_mmi(store))

Next ==
    \/ UploadMmi
    \/ UploadSql
    \/ Analyze
    \/ GetChange
    \/ Approve
    \/ Reject
    \/ ApproveAll
    \/ RejectAll
    \/ ExportSql
    \/ ExportMmi

Spec == Init /\ [][Next]_vars

(***************************************************************************)
(* Properties of the change ledger                                         *)
(***************************************************************************)

\* the ids of the proposals in a ledger
LedgerIds(changes) == {changes[i].id : i \in 1..Len(changes)}

\* every id some analysis of the uploads produces, and the unknown ones
AllIds ==
    UnknownIds \cup UNION {LedgerIds(r.changes) : r \in AnalysisResult}

Decided(c) == c.status \in {"approved", "rejected"}

\* C1: a proposal's status is one-way: once it is approved or rejected, no approve(id),
\* reject(id), approve_all_pending or reject_all_pending request changes it (only a
\* re-analysis resets it), so that reject(id) leaves an approved proposal approved and
\* approve(id) leaves a rejected proposal rejected.
C1_StatusOneWay ==
    [][ resp'.op \in {"approve", "reject", "approve_all", "reject_all"}
        => \A i \in 1..Len(store.changes) :
              Decided(store.changes[i])
              => /\ i <= Len(store'.changes)
                 /\ store'.changes[i].status = store.changes[i].status ]_vars

\* C2: approve(id) and reject(id) are idempotent: for every ledger and every id in it,
\* the store after two consecutive calls is the store after one, and the second call
\* succeeds.
C2_ApproveRejectIdempotent ==
    \A id \in LedgerIds(store.changes) :
        /\ LET once == approve_change(store, id)
               twice == approve_change(once.store, id)
           IN  once.code = 200 /\ twice.code = 200 /\ twice.store = once.store
        /\ LET once == reject_change(store, id)
               twice == reject_change(once.store, id)
           IN  once.code = 200 /\ twice.code = 200 /\ twice.store = once.store

\* C2 witness: an approve(id) has just been served for a proposal that was already
\* approved
C2_Witness ==
    /\ resp.op = "approve" /\ resp.code = 200
    /\ before.target = "approved"
    /\ \E i \in 1..Len(store.changes) :
          store.changes[i].id = resp.arg /\ store.changes[i].status = "approved"

\* C3: approve(id), reject(id) and get(id) with an id that matches no proposal of the
\* ledger answer NotFound (404) and leave the whole store unchanged.
C3_UnknownIdNotFound ==
    \A id \in AllIds \ LedgerIds(store.changes) :
        \A r \in {get_change(store, id), approve_change(store, id), reject_change(store, id)} :
            r.code = 404 /\ r.store = store

\* C3 witness: a reject of an unknown id has just been answered with 404 while the
\* ledger holds proposals
C3_Witness ==
    /\ resp.op = "reject" /\ resp.code = 404
    /\ store.changes # <<>>
    /\ resp.arg \notin LedgerIds(store.changes)

\* what C4 says of one of the two bulk operations: r is its outcome on the store and
\* status the status it sets
BulkSetsExactlyPending(r, again, status) ==
    /\ r.code = 200
    /\ Len(r.store.changes) = Len(store.changes)
    /\ r.body.count = Cardinality({i \in 1..Len(store.changes) :
                                      store.changes[i].status = "pending"})
    /\ \A i \in 1..Len(store.changes) :
          IF store.changes[i].status = "pending"
          THEN r.store.changes[i] = [store.changes[i] EXCEPT !.status = status]
          ELSE r.store.changes[i] = store.changes[i]
    /\ \A i \in 1..Len(r.store.changes) : r.store.changes[i].status # "pending"
    /\ [r.store EXCEPT !.changes = store.changes] = store
    /\ again.body.count = 0
    /\ again.store = r.store

\* C4: approve_all_pending (reject_all_pending) sets exactly the pending proposals to
\* approved (rejected), returns how many were pending, leaves the decided proposals
\* unchanged and no pending proposal behind; called again at once it returns 0.
C4_BulkSetsExactlyPending ==
    /\ BulkSetsExactlyPending(approve_all_changes(store),
                              approve_all_changes(approve_all_changes(store).store),
                              "approved")
    /\ BulkSetsExactlyPending(reject_all_changes(store),
                              reject_all_changes(reject_all_changes(store).store),
                              "rejected")

\* C4 witness: approve_all_pending has just approved some proposals of a ledger in which
\* another proposal had been rejected, and that one is still rejected
C4_Witness ==
    /\ resp.op = "approve_all" /\ resp.body.count > 0
    /\ before.decided
    /\ \E i \in 1..Len(store.changes) : store.changes[i].status = "rejected"
    /\ \E i \in 1..Len(store.changes) : store.changes[i].status = "approved"

\* C5: after an accepted upload of a log or a table the ledger is empty, and after a
\* successful analyze the ledger is the freshly generated list of proposals of the
\* stored events and rows, all of them pending, whatever had been decided before.
C5_UploadEmptiesAnalyzeResets ==
    /\ resp.op \in {"upload_mmi", "upload_sql"} /\ resp.code = 200
       => store.changes = <<>>
    /\ resp.op = "analyze" /\ resp.code = 200
       => /\ store.changes = find_all_issues(store.mmi_events, store.sql_data)
          /\ \A i \in 1..Len(store.changes) : store.changes[i].status = "pending"
          /\ resp.body.total_changes = Len(store.changes)

\* C5 witness: a successful analyze has just replaced a ledger that held decisions
C5_Witness ==
    /\ resp.op = "analyze" /\ resp.code = 200
    /\ before.decided
    /\ store.changes # <<>>

\* C6: analyze without parsed log events or without table rows is rejected (400) and
\* leaves the ledger and the rest of the store exactly as they were.
C6_AnalyzeNeedsBothUploads ==
    store.mmi_events = <<>> \/ store.sql_data = <<>>
    => analyze(store).code = 400 /\ analyze(store).store = store

\* C6 witness: analyze has just been rejected although a log with events is stored
\* (the table has no rows)
C6_Witness ==
    /\ resp.op = "analyze" /\ resp.code = 400
    /\ store.mmi_events # <<>>
    /\ store.sql_data = <<>>

(***************************************************************************)
(* Properties of the two exports                                           *)
(***************************************************************************)

\* a proposal that export_sql is to apply
Applies(c) == c.status = "approved" /\ c.action \in {"DELETE", "UPDATE"}

\* seq without its i-th element
Without(seq, i) == SubSeq(seq, 1, i - 1) \o SubSeq(seq, i + 1, Len(seq))

\* C7: the exported table depends on the approved DELETE and UPDATE proposals only: a
\* pending or rejected proposal and an approved FLAG proposal never change it (the
\* export is the same with that proposal struck from the ledger), and with no
\* approved DELETE or UPDATE proposal the exported table is the uploaded table.
C7_OnlyApprovedDeleteUpdateApply ==
    store.sql_df # None
    => /\ export_sql(store).code = 200
       /\ \A i \in 1..Len(store.changes) :
             ~Applies(store.changes[i])
             => export_sql([store EXCEPT !.changes = Without(store.changes, i)]).body.table
                = export_sql(store).body.table
       /\ (\A i \in 1..Len(store.changes) : ~Applies(store.changes[i]))
          => export_sql(store).body.table = store.sql_df

\* C7 witness: a table has just been exported unchanged from a store whose ledger holds
\* an approved FLAG proposal and a DELETE or UPDATE proposal that is not approved
C7_Witness ==
    /\ resp.op = "export_sql" /\ resp.code = 200
    /\ resp.body.table = store.sql_df
    /\ \E i \in 1..Len(store.changes) :
          store.changes[i].status = "approved" /\ store.changes[i].action = "FLAG"
    /\ \E i \in 1..Len(store.changes) :
          store.changes[i].status # "approved"
          /\ store.changes[i].action \in {"DELETE", "UPDATE"}

\* the positions of the approved proposals with this action
ApprovedWith(changes, action) ==
    {i \in 1..Len(changes) : changes[i].status = "approved" /\ changes[i].action = action}

\* the precondition of C8: the rows have unique IDs and the approved DELETE and UPDATE
\* proposals have pairwise different targets
UniqueIdsDisjointTargets(df, changes) ==
    /\ \A i, j \in 1..Len(df.rows) : df.rows[i]["ID"] = df.rows[j]["ID"] => i = j
    /\ \A i, j \in ApprovedWith(changes, "DELETE") \cup ApprovedWith(changes, "UPDATE") :
          changes[i].sql_row_id = changes[j].sql_row_id => i = j

\* the row C8 expects in place of row: the after value in the fields in which the after
\* snapshot of the approved UPDATE that targets the row differs from its before
\* snapshot, the original value everywhere else
ExpectedRow(row, changes) ==
    LET ups == {i \in ApprovedWith(changes, "UPDATE") : changes[i].sql_row_id = row["ID"]}
    IN  IF ups = {} THEN row
        ELSE LET c == changes[CHOOSE i \in ups : TRUE]
             IN  [k \in DOMAIN row |->
                    IF k \in DOMAIN c.sql_after /\ c.sql_after[k] # c.sql_before[k]
                    THEN c.sql_after[k] ELSE row[k]]

\* C8: for a table of N rows with unique IDs and approved DELETE and UPDATE proposals
\* with pairwise different targets, the exported table has N minus the number of
\* approved DELETEs rows, no row targeted by an approved DELETE, and the other rows in
\* their order, each with exactly the fields changed in which the after snapshot of
\* its approved UPDATE differs from the before snapshot.
C8_MaterializationCorrect ==
    (store.sql_df # None /\ UniqueIdsDisjointTargets(store.sql_df, store.changes))
    => LET rows == store.sql_df.rows
           out == export_sql(store).body.table.rows
           deletes == ApprovedWith(store.changes, "DELETE")
           deleted == {store.changes[i].sql_row_id : i \in deletes}
           kept == {n \in 1..Len(rows) : rows[n]["ID"] \notin deleted}
           \* the position in out of the kept row n
           pos(n) == Cardinality({m \in kept : m <= n})
       IN  /\ Len(out) = Len(rows) - Cardinality(deletes)
           /\ \A k \in 1..Len(out) : out[k]["ID"] \notin deleted
           /\ \A n \in kept : /\ pos(n) <= Len(out)
                              /\ out[pos(n)] = ExpectedRow(rows[n], store.changes)

\* C8 witness: a table has just been exported with an approved DELETE and an approved
\* UPDATE on different rows applied: a row less, and a row that differs
C8_Witness ==
    /\ resp.op = "export_sql" /\ resp.code = 200
    /\ UniqueIdsDisjointTargets(store.sql_df, store.changes)
    /\ ApprovedWith(store.changes, "DELETE") # {}
    /\ ApprovedWith(store.changes, "UPDATE") # {}
    /\ Len(resp.body.table.rows) < Len(store.sql_df.rows)
    /\ \E k \in 1..Len(resp.body.table.rows) :
          \A n \in 1..Len(store.sql_df.rows) :
              resp.body.table.rows[k] # store.sql_df.rows[n]

\* line number n comes after the first entry in the evidence line numbers of an
\* approved DUPLICATE_INSERT proposal
IsRemoved(changes, n) ==
    \E i \in 1..Len(changes) :
        /\ changes[i].status = "approved"
        /\ changes[i].issue_type = "DUPLICATE_INSERT"
        /\ \E k \in 2..Len(changes[i].mmi_line_numbers) :
              changes[i].mmi_line_numbers[k] = n

\* C9: the exported log is the uploaded log without the lines whose number comes after
\* the first entry in the evidence line numbers of an approved DUPLICATE_INSERT
\* proposal: every other line is kept, unchanged and in its order, and proposals of
\* other types or not approved remove no line.
C9_ExportMmiRemovesExactly ==
    store.mmi_raw # ""
    => LET lines == ExportLines(store.mmi_raw)
           kept == {n \in 1..Len(lines) : ~IsRemoved(store.changes, n)}
           \* the number of the j-th kept line
           nth(j) == CHOOSE n \in kept : Cardinality({m \in kept : m < n}) = j - 1
           out == export_mmi(store)
       IN  /\ out.code = 200
           /\ out.store = store
           /\ out.body.content
              = Join([j \in 1..Cardinality(kept) |-> lines[nth(j)]], "\n")
           /\ (\A n \in 1..Len(lines) : ~IsRemoved(store.changes, n))
              => out.body.content = store.mmi_raw

\* C9 witness: a log has just been exported without a line that an approved
\* DUPLICATE_INSERT proposal lists after its first evidence line, while another
\* proposal with evidence lines is not approved
C9_Witness ==
    /\ resp.op = "export_mmi" /\ resp.code = 200
    /\ \E n \in 1..Len(ExportLines(store.mmi_raw)) : IsRemoved(store.changes, n)
    /\ Len(Split(resp.body.content, "\n")) < Len(ExportLines(store.mmi_raw))
    /\ \E i \in 1..Len(store.changes) :
          store.changes[i].status # "approved" /\ store.changes[i].mmi_line_numbers # <<>>

\* C10: evidence line numbers map back to the raw file: each parsed event's line_number
\* is the 1-based position of the event's source line in the line list export_mmi
\* works on, whether the lines of the log end in LF, CRLF or a lone CR.
C10_LineNumbersMapToExportLines ==
    \A i \in 1..Len(store.mmi_events) :
        LET e == store.mmi_events[i]
            lines == ExportLines(store.mmi_raw)
        IN  /\ e.line_number \in 1..Len(lines)
            /\ Strip(lines[e.line_number]) = e.raw

(***************************************************************************)
(* The detectors on their own: utils/analysis.py called with events and    *)
(* rows.  store holds the arguments, resp the detector last called and     *)
(* what it returned, before the arguments as they were before the call.    *)
(***************************************************************************)

\* a log with error, alarm and clear lines and a tape picture
ErrorLog ==
    "[10:00:00]ERROR 1234 motor jam\n[10:00:20]+4,OK,IMG_0044\n[10:00:40]ERROR 1234 CLEARED\n[10:05:00]ALARM: 7777\n[10:06:00][88888] door\n[10:07:00]RESET 88888 OFF"

\* error tables, as lists of rows
ErrorTables ==
    << << [ID |-> IntV(1), ERROR_CODE |-> Str("1234"),
           SET_TIME |-> Str("2025-12-17 10:00:00"), CLEAR_TIME |-> None],
          [ID |-> IntV(2), ERROR_CODE |-> Str("1234"),
           SET_TIME |-> Str("2025-12-17 10:00:00"), CLEAR_TIME |-> None],
          [ID |-> IntV(3), ERROR_CODE |-> Str("9999"),
           SET_TIME |-> Str("2025-12-17 11:00:00"), CLEAR_TIME |-> Str("")] >>,
       << [ID |-> IntV(0), ALARM_CODE |-> Str("7777"),
           START_TIME |-> Str("2025-12-17 10:05:00"),
           END_TIME |-> Str("2025-12-17 10:06:30")],
          [ID |-> IntV(5), ALARM_CODE |-> Str("88888"),
           START_TIME |-> Str("10:06:00"), END_TIME |-> None] >>,
       << [ID |-> IntV(9), ERROR_CODE |-> IntV(1234),
           SET_TIME |-> Str("2025-12-17 10:00:00"), CLEAR_TIME |-> NaN] >> >>

\* a log with a tape picture and an insert shortly after midnight
MidnightLog == "[00:00:10]+4,OK,IMG_0099\n[00:00:20]insert into T values('PB010')"

\* a log with the same insert at 10:00:00, 20 s later and 40 s later
SpacedLog == "[10:00:00]insert into T values('PB001')\n[10:00:20]insert into T values('PB001')\n[10:00:40]insert into T values('PB001')"

\* a log whose first PSA tape event carries no image and whose second one does
ImagelessLog == "[10:00:00]+4,NG\n[10:00:02]+4,OK,IMG_0050"

\* a table whose only record has no DATE and no PSA_TAPE_PIC
DatelessRows ==
    << [ID |-> IntV(10), DATE |-> None, PSA_TAPE_PIC |-> None,
        POWER_BOARD_SN |-> Str("PB010"), POWER_BOARD_SN_PIC |-> Str("CAM2_0005"),
        POWER_BOARD_PSA_PIC |-> Str("CAM2_0011"), BATTERY_SN |-> Str("BT010"),
        BATTERY_SN_PIC |-> Str("CAM2_0006"), BATTERY_PSA_PIC |-> Str("CAM2_0012")] >>

\* tables with adjacent identical records: a run of three followed by another record,
\* a pair in a table whose PSA_TAPE_PIC column is empty throughout, and a pair whose
\* PSA_TAPE_PIC is an empty cell in one record and a blank string in the other
RepeatedRecord(id, date, sn, tape) ==
    [ID |-> IntV(id), DATE |-> Str(date), PSA_TAPE_PIC |-> tape,
     POWER_BOARD_SN |-> Str(sn), POWER_BOARD_SN_PIC |-> Str("CAM2_0005"),
     POWER_BOARD_PSA_PIC |-> Str("CAM2_0011"), BATTERY_SN |-> Str("BT011"),
     BATTERY_SN_PIC |-> Str("CAM2_0006"), BATTERY_PSA_PIC |-> Str("CAM2_0012")]

DuplicateTables ==
    << [columns |-> Columns,
        rows |-> << RepeatedRecord(11, "2025-12-17 10:00:00", "PB011", Str("IMG_0011")),
                    RepeatedRecord(12, "2025-12-17 10:00:00", "PB011", Str("IMG_0011")),
                    RepeatedRecord(13, "2025-12-17 10:00:00", "PB011", Str("IMG_0011")),
                    RepeatedRecord(14, "2025-12-17 10:00:00", "PB014", Str("IMG_0011")) >>],
       [columns |-> Columns,
        rows |-> << RepeatedRecord(15, "2025-12-17 10:00:00", "PB015", NaN),
                    RepeatedRecord(16, "2025-12-17 10:00:00", "PB015", NaN),
                    RepeatedRecord(17, "2025-12-17 10:00:03", "PB015", NaN) >>],
       [columns |-> Columns,
        rows |-> << RepeatedRecord(18, "2025-12-17 10:00:00", "PB018", NaN),
                    RepeatedRecord(19, "2025-12-17 10:00:00", "PB018", Str("")) >>] >>

\* the event lists the detectors are called with
DetectorEvents ==
    {r.events : r \in ParsedLogs}
    \cup {parse_mmi_log(ErrorLog), parse_mmi_log(MidnightLog), parse_mmi_log(SpacedLog),
          parse_mmi_log(ImagelessLog)}

\* the row lists the detectors are called with
DetectorRows ==
    {parse_sql_export(TableFiles[i].df, keep_nan) :
        i \in DOMAIN TableFiles, keep_nan \in BOOLEAN}
    \cup {parse_sql_export(DuplicateTables[i], keep_nan) :
              i \in DOMAIN DuplicateTables, keep_nan \in BOOLEAN}
    \cup {DatelessRows}

\* any events with any rows and no error table, and the error log with each error table
DetectorInit ==
    /\ store \in [mmi_events : DetectorEvents, sql_data : DetectorRows,
                  sql_error_data : {<<>>}]
                 \cup [mmi_events : {parse_mmi_log(ErrorLog)},
                       sql_data : {parse_sql_export(TableFiles[1].df, FALSE)},
                       sql_error_data : {ErrorTables[i] : i \in DOMAIN ErrorTables}]
    /\ resp = [op |-> "start", arg |-> "", code |-> 200, body |-> <<>>]
    /\ before = store

\* detector op has been called, returned out (code 500 is an exception) and left its
\* arguments as after
Detected(op, out, after) ==
    /\ resp' = [op |-> op, arg |-> "", code |-> IF out.ok THEN 200 ELSE 500,
                body |-> out.changes]
    /\ before' = store
    /\ store' = after

\* a detector that raises nothing returned changes
Returned(changes) == [ok |-> TRUE, changes |-> changes]

FindMissingPsaTape ==
    Detected("find_missing_psa_tape",
             Returned(find_missing_psa_tape(store.mmi_events, store.sql_data)),
             [store EXCEPT !.sql_data = RowsAfterMissingPsaTape(store.mmi_events, @)])

FindDuplicateRows ==
    Detected("find_duplicate_rows",
             Returned(find_duplicate_rows(store.mmi_events, store.sql_data)), store)

FindOrphanRows ==
    Detected("find_orphan_rows",
             Returned(find_orphan_rows(store.mmi_events, store.sql_data)), store)

FindCam2IndexMismatches ==
    Detected("find_cam2_index_mismatches",
             Returned(find_cam2_index_mismatches(store.mmi_events, store.sql_data)),
             [store EXCEPT !.sql_data = RowsAfterIndexMismatches(store.mmi_events, @)])

FindErrorEventMismatches ==
    Detected("find_error_event_mismatches",
             find_error_event_mismatches(store.mmi_events, store.sql_error_data),
             [store EXCEPT !.sql_error_data = RowsAfterErrorMismatches(store.mmi_events, @)])

FindRepeatedInserts ==
    Detected("find_repeated_inserts",
             Returned(find_repeated_inserts(store.mmi_events, store.sql_data)), store)

FindAllIssues ==
    Detected("find_all_issues",
             find_all_issues_with(store.mmi_events, store.sql_data, store.sql_error_data),
             [store EXCEPT
                !.sql_data = RowsAfterIndexMismatches(store.mmi_events,
                                 RowsAfterMissingPsaTape(store.mmi_events, @)),
                !.sql_error_data = RowsAfterErrorMismatches(store.mmi_events, @)])

DetectorNext ==
    \/ FindMissingPsaTape
    \/ FindDuplicateRows
    \/ FindOrphanRows
    \/ FindCam2IndexMismatches
    \/ FindErrorEventMismatches
    \/ FindRepeatedInserts
    \/ FindAllIssues

DetectorSpec == DetectorInit /\ [][DetectorNext]_vars

(***************************************************************************)
(* The time helpers on their own.  store holds two time strings and a      *)
(* window, resp the helper last called, its argument and what it returned. *)
(***************************************************************************)

\* f"{n:02d}" for n >= 0
TwoDigits(n) == ZeroPad(NatStr(n), 2)

\* the time of day hour:minute:second written in a style: "24" is HH:MM:SS, "12" is
\* h:mm:ss AM|PM, "012" is hh:mm:ss AM|PM
TimeString(hour, minute, second, style) ==
    LET h12 == IF hour % 12 = 0 THEN 12 ELSE hour % 12
        tail == ":" \o TwoDigits(minute) \o ":" \o TwoDigits(second)
        half == IF hour < 12 THEN " AM" ELSE " PM"
    IN  CASE style = "24" -> TwoDigits(hour) \o tail
          [] style = "12" -> NatStr(h12) \o tail \o half
          [] OTHER -> TwoDigits(h12) \o tail \o half

\* valid time strings, each with its seconds since midnight on the wall clock
ValidTimes ==
    {[s |-> TimeString(h, m, sec, style), secs |-> h * 3600 + m * 60 + sec] :
        h \in 0..23, m \in {0, 59}, sec \in {0, 59}, style \in {"24", "12", "012"}}

\* strings that are no time of day: a missing DATE, an empty cell, text, a date, and
\* a time without seconds
InvalidTimes == {"", "nan", "None", "ab:cd:ef", "2025-12-17", "10:00"}

\* the second time string of a call
OtherTimes ==
    {"12:00:00 AM", "12:00:59 AM", "1:00:00 AM", "11:59:59 AM", "12:00:00 PM",
     "01:00:00 PM", "11:59:59 PM", "23:59:00", "", "10:00"}

TimeInit ==
    /\ store \in [t1 : {v.s : v \in ValidTimes} \cup InvalidTimes,
                  t2 : OtherTimes,
                  window_seconds : {0, 60}]
    /\ resp = [op |-> "start", arg |-> "", code |-> 200, body |-> 0]
    /\ before = store

NormalizeTime ==
    \E t \in {store.t1, store.t2} :
        /\ resp' = [op |-> "_normalize_time", arg |-> t, code |-> 200,
                    body |-> _normalize_time(t)]
        /\ before' = store
        /\ UNCHANGED store

TimesClose ==
    /\ resp' = [op |-> "_times_close", arg |-> store.t1, code |-> 200,
                body |-> _times_close(store.t1, store.t2, store.window_seconds)]
    /\ before' = store
    /\ UNCHANGED store

TimeNext == NormalizeTime \/ TimesClose

TimeSpec == TimeInit /\ [][TimeNext]_vars

(***************************************************************************)
(* routers/analytics.py: analyze_serial on the events of a barcode log.    *)
(* An event is the part of the dict parse_barcode_log builds that          *)
(* analyze_serial reads: sn ("" for None), category, timeMs (whole         *)
(* seconds, as int(ts.timestamp() * 1000) of a second-resolution time      *)
(* gives) and timeStr.  The floats uph, medianGap and meanGap and the      *)
(* constant station dict of the result are left out.                       *)
(***************************************************************************)

\* int(a / b) for b > 0: the quotient truncated toward zero
IntTrunc(a, b) == IF a >= 0 THEN a \div b ELSE 0 - ((0 - a) \div b)

\* the loop without the seen_sns test: every scan becomes a unit
RECURSIVE UnitsFrom_keeping_every_scan(_, _, _)
UnitsFrom_keeping_every_scan(sn_events, i, units) ==
    IF i > Len(sn_events) THEN units
    ELSE LET time_ms == sn_events[i].timeMs
             gap_ms == IF Len(units) > 0 THEN time_ms - units[Len(units)].timeMs ELSE 0
         IN  UnitsFrom_keeping_every_scan(sn_events, i + 1,
                       Append(units, [n |-> Len(units) + 1,
                                      time |-> sn_events[i].timeStr,
                                      timeMs |-> time_ms,
                                      sn |-> sn_events[i].sn,
                                      gap |-> IntTrunc(gap_ms, 1000),
                                      isStoppage |-> gap_ms > 60 * 1000,
                                      isBuffer |-> gap_ms < 30 * 1000 /\ gap_ms > 0]))

\* the loop that builds units from sn_events[i..], i 1-based
RECURSIVE UnitsFrom(_, _, _)
UnitsFrom(sn_events, i, units) ==
    IF i > Len(sn_events) THEN units
    ELSE IF \E k \in 1..Len(units) : units[k].sn = sn_events[i].sn
         THEN UnitsFrom(sn_events, i + 1, units)
    ELSE LET time_ms == sn_events[i].timeMs
             \* gap in milliseconds; the code holds gap / 1000 as a float
             gap_ms == IF Len(units) > 0 THEN time_ms - units[Len(units)].timeMs ELSE 0
         IN  UnitsFrom(sn_events, i + 1,
                       Append(units, [n |-> Len(units) + 1,
                                      time |-> sn_events[i].timeStr,
                                      timeMs |-> time_ms,
                                      sn |-> sn_events[i].sn,
                                      gap |-> IntTrunc(gap_ms, 1000),
                                      isStoppage |-> gap_ms > 60 * 1000,
                                      isBuffer |-> gap_ms < 30 * 1000 /\ gap_ms > 0]))

\* the run appended when the loop closes a run at unit i (0-based), given run_number
\* after its increment
ProductionRun(units, i, run_start, run_number) ==
    LET unit == units[i + 1]
        \* units[run_start:i] or units[run_start:i+1]
        run_units == SubSeq(units, run_start + 1, IF unit.isStoppage THEN i ELSE i + 1)
    IN  [runNumber |-> run_number,
         startTime |-> run_units[1].time,
         endTime |-> run_units[Len(run_units)].time,
         numUnits |-> Len(run_units),
         durationSec |-> IntTrunc(run_units[Len(run_units)].timeMs - run_units[1].timeMs,
                                  1000),
         stoppageTime |-> IF unit.isStoppage THEN IntV(unit.gap) ELSE None]

\* the loop over the units from index i (0-based) on
RECURSIVE RunsFrom(_, _, _, _, _)
RunsFrom(units, i, run_start, run_number, runs) ==
    IF i >= Len(units) THEN runs
    ELSE IF units[i + 1].isStoppage \/ i = Len(units) - 1
    THEN IF i > run_start
         THEN RunsFrom(units, i + 1, i, run_number + 1,
                       Append(runs, ProductionRun(units, i, run_start, run_number + 1)))
         ELSE RunsFrom(units, i + 1, i, run_number, runs)
    ELSE RunsFrom(units, i + 1, run_start, run_number, runs)

\* sum(u['gap'] for u in units if u['isStoppage']) over units[i..]
RECURSIVE StoppageTimeFrom(_, _)
StoppageTimeFrom(units, i) ==
    IF i > Len(units) THEN 0
    ELSE (IF units[i].isStoppage THEN units[i].gap ELSE 0) + StoppageTimeFrom(units, i + 1)

\* None when fewer than two scan events with a serial or fewer than two units
analyze_serial(events) ==
    LET scanned(e) == e.sn # "" /\ e.category = "Scan"
    IN  Let(SelectSeq(events, scanned), LAMBDA sn_events :
        IF Len(sn_events) < 2 THEN None
        ELSE Let(UnitsFrom(sn_events, 1, <<>>), LAMBDA units :
             IF Len(units) < 2 THEN None
             ELSE LET gaps == {units[k].gap : k \in {j \in 2..Len(units) : units[j].gap > 0}}
                  IN  [units |-> units,
                       runs |-> RunsFrom(units, 0, 0, 0, <<>>),
                       stats |->
                         [totalUnits |-> Len(units),
                          minGap |-> IF gaps = {} THEN 0
                                     ELSE CHOOSE g \in gaps : \A h \in gaps : g <= h,
                          maxGap |-> IF gaps = {} THEN 0
                                     ELSE CHOOSE g \in gaps : \A h \in gaps : g >= h,
                          stoppages |-> Cardinality({k \in 1..Len(units) :
                                                        units[k].isStoppage}),
                          bufferClears |-> Cardinality({k \in 1..Len(units) :
                                                           units[k].isBuffer}),
                          totalStoppageTime |-> StoppageTimeFrom(units, 1)]]))

\* the events of a barcode log: scans of three serials at 0 s, 20 s, 50 s, 95 s and
\* 110 s after 9:00:00 AM, a scan that carries no serial, and a press event
BarcodeEvents ==
    {[sn |-> sn, category |-> "Scan", timeMs |-> t * 1000,
      timeStr |-> TimeString(9, t \div 60, t % 60, "12")] :
        sn \in {"B001", "B002", "B003"}, t \in {0, 20, 50, 95, 110}}
    \cup {[sn |-> "", category |-> "Scan", timeMs |-> 10 * 1000, timeStr |-> "9:00:10 AM"],
          [sn |-> "", category |-> "Press", timeMs |-> 30 * 1000, timeStr |-> "9:00:30 AM"]}

\* the longest event list drawn
MaxEvents == 3

RECURSIVE EventLists(_)
EventLists(n) ==
    IF n = 0 THEN {<<>>}
    ELSE LET shorter == EventLists(n - 1)
         IN  shorter \cup {Append(l, e) : l \in {x \in shorter : Len(x) = n - 1},
                                          e \in BarcodeEvents}

SerialInit ==
    /\ store \in [events : EventLists(MaxEvents)]
    /\ resp = [op |-> "start", arg |-> "", code |-> 200, body |-> None]
    /\ before = store

AnalyzeSerial ==
    /\ resp' = [op |-> "analyze_serial", arg |-> "", code |-> 200,
                body |-> analyze_serial(store.events)]
    /\ before' = store
    /\ UNCHANGED store

SerialNext == AnalyzeSerial

SerialSpec == SerialInit /\ [][SerialNext]_vars

(***************************************************************************)
(* routers/analytics.py: analyze_cross_station on the error intervals of   *)
(* all stations.  An error is the part of an errorTimeline entry the       *)
(* cascade search reads: station, code, message, startTime, startTimeMs.   *)
(* The recurring patterns and the insights, which are computed in floats,  *)
(* are left out.                                                           *)
(***************************************************************************)

\* sorted(...) inserts err behind the errors that start no later: the sort is stable
RECURSIVE InsertByStart(_, _)
InsertByStart(sorted, err) ==
    IF sorted = <<>> THEN <<err>>
    ELSE IF sorted[Len(sorted)].startTimeMs <= err.startTimeMs THEN Append(sorted, err)
    ELSE Append(InsertByStart(SubSeq(sorted, 1, Len(sorted) - 1), err), sorted[Len(sorted)])

\* sorted(all_errors, key=lambda x: x.get('startTimeMs', 0))
RECURSIVE SortedByStart(_)
SortedByStart(all_errors) ==
    IF all_errors = <<>> THEN <<>>
    ELSE InsertByStart(SortedByStart(SubSeq(all_errors, 1, Len(all_errors) - 1)),
                       all_errors[Len(all_errors)])

\* the inner while loop: the first 1-based index j' >= j whose error starts more than
\* window_sec after cascade_start, or Len + 1
RECURSIVE CascadeEnd(_, _, _, _)
CascadeEnd(sorted_errors, cascade_start, j, window_sec) ==
    IF j <= Len(sorted_errors)
       /\ sorted_errors[j].startTimeMs - cascade_start <= window_sec * 1000
    THEN CascadeEnd(sorted_errors, cascade_start, j + 1, window_sec)
    ELSE j

\* the dict appended to cascades; stations is list(set(...)), whose order is left open
Cascade(cascade_errors, cascade_id, window_sec) ==
    [id |-> "cascade-" \o IntStr(cascade_id),
     startTime |-> cascade_errors[1].startTime,
     stations |-> {cascade_errors[k].station : k \in 1..Len(cascade_errors)},
     errors |-> [k \in 1..Len(cascade_errors) |->
                    [station |-> cascade_errors[k].station,
                     code |-> cascade_errors[k].code,
                     message |-> cascade_errors[k].message,
                     time |-> cascade_errors[k].startTime]],
     windowSec |-> window_sec]

\* the outer while loop, i 1-based
RECURSIVE CascadesFrom(_, _, _, _)
CascadesFrom(sorted_errors, i, cascade_id, window_sec) ==
    IF i > Len(sorted_errors) THEN <<>>
    ELSE Let(CascadeEnd(sorted_errors, sorted_errors[i].startTimeMs, i + 1, window_sec),
             LAMBDA j :
         Let(SubSeq(sorted_errors, i, j - 1), LAMBDA cascade_errors :
             IF Cardinality({cascade_errors[k].station : k \in 1..Len(cascade_errors)}) > 1
             THEN <<Cascade(cascade_errors, cascade_id + 1, window_sec)>>
                  \o CascadesFrom(sorted_errors, j, cascade_id + 1, window_sec)
             ELSE CascadesFrom(sorted_errors, j, cascade_id, window_sec)))

analyze_cross_station(all_errors, window_sec) ==
    IF all_errors = <<>> THEN [cascades |-> <<>>]
    ELSE [cascades |-> Take(CascadesFrom(SortedByStart(all_errors), 1, 0, window_sec), 50)]

\* error intervals of two stations that start 0 s, 50 s and 100 s after 9:00:00 AM
StationErrors ==
    {[station |-> station, code |-> "101", message |-> "JAM",
      startTime |-> TimeString(9, t \div 60, t % 60, "12"), startTimeMs |-> t * 1000] :
        station \in {"Bottom Shell", "Battery"}, t \in {0, 50, 100}}

\* the longest error list drawn
MaxErrors == 3

RECURSIVE ErrorLists(_)
ErrorLists(n) ==
    IF n = 0 THEN {<<>>}
    ELSE LET shorter == ErrorLists(n - 1)
         IN  shorter \cup {Append(l, e) : l \in {x \in shorter : Len(x) = n - 1},
                                          e \in StationErrors}

CrossInit ==
    /\ store \in [all_errors : ErrorLists(MaxErrors)]
    /\ resp = [op |-> "start", arg |-> "", code |-> 200, body |-> [cascades |-> <<>>]]
    /\ before = store

\* run_analysis calls analyze_cross_station(all_errors): window_sec is its default, 60
AnalyzeCrossStation ==
    /\ resp' = [op |-> "analyze_cross_station", arg |-> "", code |-> 200,
                body |-> analyze_cross_station(store.all_errors, 60)]
    /\ before' = store
    /\ UNCHANGED store

CrossNext == AnalyzeCrossStation

CrossSpec == CrossInit /\ [][CrossNext]_vars

(***************************************************************************)
(* utils/mmi_parser.py: parse_mmi_log called on log texts built from lines *)
(***************************************************************************)

\* lines of a log: event lines of several types, lines padded with blanks, and lines
\* that are blank, are noise, lack the content or lack the time of an event
LogLines ==
    {"", "  ", " [10:00:02]+4,OK,IMG_0012 ", "[10:00:03]", "[]x", "x[10:00:05]y",
     "[10:00:06]door open", "[10:00:07]ALARM 55 RESET"}

\* line terminators of a log
Newlines == {"\n", "\r\n", "\r"}

\* the most lines a drawn log has
MaxLines == 3

RECURSIVE LineLists(_)
LineLists(n) ==
    IF n = 0 THEN {<<>>}
    ELSE LET shorter == LineLists(n - 1)
         IN  shorter \cup {Append(l, e) : l \in {x \in shorter : Len(x) = n - 1},
                                          e \in LogLines}

ParserInit ==
    /\ store \in [lines : LineLists(MaxLines) \ {<<>>}, newline : Newlines]
    /\ resp = [op |-> "start", arg |-> "", code |-> 200, body |-> <<>>]
    /\ before = store

ParseMmiLog ==
    /\ resp' = [op |-> "parse_mmi_log", arg |-> Join(store.lines, store.newline),
                code |-> 200,
                body |-> parse_mmi_log(Join(store.lines, store.newline))]
    /\ before' = store
    /\ UNCHANGED store

ParserNext == ParseMmiLog

ParserSpec == ParserInit /\ [][ParserNext]_vars

(***************************************************************************)
(* routers/analytics.py: parse_error_log called on error logs built from   *)
(* lines.  A datetime of the log date is the number of seconds since that  *)
(* date's midnight, and startTimeMs and endTimeMs count from there.        *)
(***************************************************************************)

\* s[i - 1] of Python, "" outside the string
CharAt(s, i) == IF 1 <= i /\ i <= Len(s) THEN Ch(s, i) ELSE ""

\* the position after \d{min_hour,2}:\d{2}:\d{2} matched at i, 0 when it does not match
ClockEnd(s, i, min_hour) ==
    Let(DigitRunEnd(s, i), LAMBDA h :
        IF /\ h - i >= min_hour /\ h - i <= 2
           /\ CharAt(s, h) = ":" /\ IsDigit(CharAt(s, h + 1)) /\ IsDigit(CharAt(s, h + 2))
           /\ CharAt(s, h + 3) = ":" /\ IsDigit(CharAt(s, h + 4)) /\ IsDigit(CharAt(s, h + 5))
        THEN h + 6 ELSE 0)

\* the position after ^\[(\d{1,2}:\d{2}:\d{2} [AP]M)\], the group lying between
\* positions 2 and that position minus 2; 0 when it does not match
Time12End(s) ==
    Let(ClockEnd(s, 2, 1), LAMBDA c :
        IF /\ CharAt(s, 1) = "[" /\ c # 0 /\ CharAt(s, c) = " "
           /\ CharAt(s, c + 1) \in {"A", "P"} /\ CharAt(s, c + 2) = "M"
           /\ CharAt(s, c + 3) = "]"
        THEN c + 4 ELSE 0)

\* the same for ^\[(\d{2}:\d{2}:\d{2})\]
Time24End(s) ==
    Let(ClockEnd(s, 2, 2), LAMBDA c :
        IF CharAt(s, 1) = "[" /\ c # 0 /\ CharAt(s, c) = "]" THEN c + 1 ELSE 0)

\* the position after the run of [A-Z]* that starts at i
RECURSIVE UpperRunEnd(_, _)
UpperRunEnd(s, i) ==
    IF i <= Len(s) /\ FindFrom(UpperLetters, Ch(s, i), 1) # 0
    THEN UpperRunEnd(s, i + 1) ELSE i

NoMatch == [ok |-> FALSE, ts_str |-> "", status |-> "", code |-> "", message |-> ""]

\* the position of the closing bracket of \s*\[(\d+)\] matched at i, 0 when it does
\* not match
CodeClose(s, i) ==
    Let(SkipSpaces(s, i), LAMBDA c : Let(DigitRunEnd(s, c + 1), LAMBDA d :
        IF CharAt(s, c) = "[" /\ d > c + 1 /\ CharAt(s, d) = "]" THEN d ELSE 0))

\* match.groups() of the Bottom Shell pattern (comma and blanks allowed after the time)
\* and of the Battery pattern (nothing allowed there):
\* ^\[(time)\],?\s*\[([A-Z]+)\]\s*\[(\d+)\]\s*(.*)
StatusLineMatch(s, station_code) ==
    Let(Time12End(s), LAMBDA e :
    Let(IF station_code = "BS"
        THEN SkipSpaces(s, IF CharAt(s, e) = "," THEN e + 1 ELSE e)
        ELSE e, LAMBDA a :
    Let(UpperRunEnd(s, a + 1), LAMBDA u :
        IF e # 0 /\ CharAt(s, a) = "[" /\ u > a + 1 /\ CharAt(s, u) = "]"
        THEN Let(CodeClose(s, u + 1), LAMBDA d :
                 IF d = 0 THEN NoMatch
                 ELSE [ok |-> TRUE, ts_str |-> SubSeq(s, 2, e - 2),
                       status |-> SubSeq(s, a + 1, u - 1),
                       code |-> SubSeq(s, DigitRunStart(s, d - 1), d - 1),
                       message |-> From(s, SkipSpaces(s, d + 1))])
        ELSE NoMatch)))

\* An ERROR or ERROR RESET when s holds it at position b, "" otherwise
ErrorStatusAt(s, b) ==
    IF b > Len(s) THEN ""
    ELSE IF StartsWith(From(s, b), "An ERROR") THEN "An ERROR"
    ELSE IF StartsWith(From(s, b), "ERROR RESET") THEN "ERROR RESET"
    ELSE ""

\* match.groups() of the FVT pattern
\* ^\[(\d{2}:\d{2}:\d{2})\],\s*(An ERROR|ERROR RESET)\s*,\[(\d+)\],\s*(.*)
\* and of the pattern of Trans, Top Shell and Laser
\* ^\[(time)\]\s*(An ERROR|ERROR RESET)\s*,\[?(\d+)\]?,\s*(.*)
ErrorLineMatch(s, station_code) ==
    Let(station_code = "FV", LAMBDA fv :
    Let(IF fv THEN Time24End(s) ELSE Time12End(s), LAMBDA e :
        IF e = 0 \/ (fv /\ CharAt(s, e) # ",") THEN NoMatch
        ELSE
    Let(SkipSpaces(s, IF fv THEN e + 1 ELSE e), LAMBDA b :
    Let(ErrorStatusAt(s, b), LAMBDA status :
    Let(SkipSpaces(s, b + Len(status)), LAMBDA c :
    Let(IF CharAt(s, c + 1) = "[" THEN c + 2 ELSE c + 1, LAMBDA f :
    Let(DigitRunEnd(s, f), LAMBDA d :
    Let(IF CharAt(s, d) = "]" THEN d + 1 ELSE d, LAMBDA g :
        IF /\ status # "" /\ CharAt(s, c) = ","
           /\ (fv => f = c + 2 /\ g = d + 1) /\ d > f /\ CharAt(s, g) = ","
        THEN [ok |-> TRUE, ts_str |-> SubSeq(s, 2, e - 2), status |-> status,
              code |-> SubSeq(s, f, d - 1), message |-> From(s, SkipSpaces(s, g + 1))]
        ELSE NoMatch))))))))

\* the hours, minutes and seconds of ==> HOLDING TIME : \(\s*(\d+):(\d+):(\d+)\s*\)
\* matched at i
HoldingAt(s, i) ==
    IF ~StartsWith(From(s, i), "==> HOLDING TIME : (") THEN [ok |-> FALSE, sec |-> 0]
    ELSE
    Let(SkipSpaces(s, i + Len("==> HOLDING TIME : (")), LAMBDA h :
    Let(DigitRunEnd(s, h), LAMBDA he :
    Let(DigitRunEnd(s, he + 1), LAMBDA me :
    Let(DigitRunEnd(s, me + 1), LAMBDA se :
        IF /\ he > h /\ CharAt(s, he) = ":" /\ me > he + 1 /\ CharAt(s, me) = ":"
           /\ se > me + 1 /\ CharAt(s, SkipSpaces(s, se)) = ")"
        THEN [ok |-> TRUE,
              sec |-> DigitsValue(SubSeq(s, h, he - 1)) * 3600
                      + DigitsValue(SubSeq(s, he + 1, me - 1)) * 60
                      + DigitsValue(SubSeq(s, me + 1, se - 1))]
        ELSE [ok |-> FALSE, sec |-> 0]))))

\* re.search of the holding time in a message
RECURSIVE HoldingSearch(_, _)
HoldingSearch(s, i) ==
    IF i > Len(s) THEN [ok |-> FALSE, sec |-> 0]
    ELSE Let(HoldingAt(s, i), LAMBDA holding_match :
             IF holding_match.ok THEN holding_match ELSE HoldingSearch(s, i + 1))

\* the seconds since midnight of an hour, a minute and a second strptime accepts, the
\* hour being one of %I with pm telling the half of the day, or one of %H; None for
\* those it rejects
ClockTime(half, pm, hour, minute, second) ==
    IF /\ (IF half THEN hour >= 1 /\ hour <= 12 ELSE hour <= 23)
       /\ minute <= 59 /\ second <= 59
    THEN IntV((IF ~half THEN hour
               ELSE IF hour = 12 THEN (IF pm THEN 12 ELSE 0)
               ELSE IF pm THEN hour + 12 ELSE hour) * 3600 + minute * 60 + second)
    ELSE None

\* parse_timestamp on the time of a matched line: strptime with %I:%M:%S %p when the
\* string holds AM or PM, after a zero is put before a one-digit hour, with %H:%M:%S
\* otherwise; a ValueError gives None
parse_timestamp(ts_str0) ==
    Let(Strip(ts_str0), LAMBDA ts_str :
    Let(Contains(ts_str, "AM") \/ Contains(ts_str, "PM"), LAMBDA half :
    Let(IF half /\ CharAt(ts_str, 2) = ":" THEN "0" \o ts_str ELSE ts_str, LAMBDA padded :
        ClockTime(half, SubSeq(padded, 10, 11) = "PM",
                  DigitsValue(SubSeq(padded, 1, 2)), DigitsValue(SubSeq(padded, 4, 5)),
                  DigitsValue(SubSeq(padded, 7, 8))))))

\* STATIONS[station_code]['name']
STATIONS ==
    [BS |-> "Bottom Shell", BA |-> "Battery", TR |-> "Trans", TO |-> "Top Shell",
     LA |-> "Laser", FV |-> "FVT"]

\* a dict with one more key, or with another value at a key it has
DictPut(d, key, value) == [k \in DOMAIN d \cup {key} |-> IF k = key THEN value ELSE d[k]]

\* a dict after pop(key)
DictPop(d, key) == [k \in DOMAIN d \ {key} |-> d[k]]

\* what parse_error_log holds between two lines
NoErrors == [errors |-> <<>>, error_timeline |-> <<>>, pending_errors |-> <<>>]

\* the entry of pending_errors made by a start line
PendingError(station_code, code, message, ts_str, ts) ==
    [station |-> STATIONS[station_code], code |-> code, message |-> message,
     startTime |-> ts_str, startTimeMs |-> ts.n * 1000]

\* the entry of errors made by a line
ErrorEntry(ts_str, ts, code, message) ==
    [time |-> ts_str, timestamp |-> ts.n * 1000, code |-> code, message |-> Take(message, 60)]

\* the interval made of a pending error and the line that ends it
Interval(err, ts_str, ts, duration) ==
    [station |-> err.station, code |-> err.code, message |-> err.message,
     startTime |-> err.startTime, startTimeMs |-> err.startTimeMs,
     endTime |-> ts_str, endTimeMs |-> ts.n * 1000, durationSec |-> duration]

\* pending_errors.pop(error_key) without the removal of the key
Closed_keeping_pending(acc, error_key, interval) ==
    [acc EXCEPT !.error_timeline = Append(@, interval)]

\* pending_errors.pop(error_key) and error_timeline.append
Closed(acc, error_key, interval) ==
    [acc EXCEPT !.pending_errors = DictPop(@, error_key),
                !.error_timeline = Append(@, interval)]

\* the round of the Bottom Shell and Battery branch for a line that matched, with its
\* time and its stripped message
StatusLineRound(acc, match, ts, message, station_code, start_filter) ==
    IF ts = None THEN acc
    ELSE IF start_filter # None /\ ts.n < start_filter.n THEN acc
    ELSE IF message = "(null)" \/ message = "" THEN acc
    ELSE Let(match.code \o "_" \o message, LAMBDA error_key :
        IF match.status = "OCCURED"
        THEN [acc EXCEPT !.pending_errors =
                  DictPut(@, error_key,
                          PendingError(station_code, match.code, message, match.ts_str, ts))]
        ELSE IF match.status = "CLEARED" /\ error_key \in DOMAIN acc.pending_errors
        THEN [Closed(acc, error_key,
                     Interval(acc.pending_errors[error_key], match.ts_str, ts,
                              ts.n - acc.pending_errors[error_key].startTimeMs \div 1000))
                 EXCEPT !.errors =
                      Append(@, ErrorEntry(match.ts_str, ts, match.code, message))]
        ELSE acc)

\* one round of the loop of the Bottom Shell and Battery branch
StatusLineStep(acc, line, station_code, start_filter) ==
    Let(StatusLineMatch(Strip(line), station_code), LAMBDA match :
        IF ~match.ok THEN acc
        ELSE StatusLineRound(acc, match, parse_timestamp(match.ts_str),
                             Strip(match.message), station_code, start_filter))

\* the round of the branch of the other stations for a line that matched, with its
\* time, its holding time and its message without the holding time
ErrorLineRound(acc, match, ts, holding_match, message, station_code, start_filter) ==
    IF ts = None THEN acc
    ELSE IF start_filter # None /\ ts.n < start_filter.n THEN acc
    ELSE Let(match.code \o "_" \o message, LAMBDA error_key :
        IF match.status = "An ERROR"
        THEN [acc EXCEPT !.pending_errors =
                  DictPut(@, error_key,
                          PendingError(station_code, match.code, message, match.ts_str, ts)),
                         !.errors =
                  Append(@, ErrorEntry(match.ts_str, ts, match.code, message))]
        ELSE IF match.status = "ERROR RESET" /\ error_key \in DOMAIN acc.pending_errors
        THEN Closed(acc, error_key,
                    Interval(acc.pending_errors[error_key], match.ts_str, ts,
                             IF holding_match.ok /\ holding_match.sec # 0
                             THEN holding_match.sec
                             ELSE ts.n - acc.pending_errors[error_key].startTimeMs \div 1000))
        ELSE acc)

\* the message of a line of the other stations: what precedes ==> when the holding
\* time was found
MessageOf(message, holding_match) ==
    IF holding_match.ok THEN Strip(Split(message, "==>")[1]) ELSE message

\* one round of the loop of the branch of the other stations
ErrorLineStep(acc, line, station_code, start_filter) ==
    Let(ErrorLineMatch(Strip(line), station_code), LAMBDA match :
        IF ~match.ok THEN acc
        ELSE Let(HoldingSearch(match.message, 1), LAMBDA holding_match :
                 ErrorLineRound(acc, match, parse_timestamp(match.ts_str), holding_match,
                                MessageOf(match.message, holding_match),
                                station_code, start_filter)))

\* the loop over the lines from the i-th on
RECURSIVE ErrorLinesFrom(_, _, _, _, _)
ErrorLinesFrom(acc, lines, i, station_code, start_filter) ==
    IF i > Len(lines) THEN acc
    ELSE ErrorLinesFrom(IF station_code \in {"BS", "BA"}
                        THEN StatusLineStep(acc, lines[i], station_code, start_filter)
                        ELSE ErrorLineStep(acc, lines[i], station_code, start_filter),
                        lines, i + 1, station_code, start_filter)

\* the errors, their number and the intervals of the dict parse_error_log returns
parse_error_log(content, station_code, start_filter) ==
    Let(ErrorLinesFrom(NoErrors, Split(content, "\n"), 1, station_code, start_filter),
        LAMBDA acc : [totalErrors |-> Len(acc.errors), errorTimeline |-> acc.error_timeline,
                      errors |-> acc.errors])

\* lines of the error log of a station: lines that start and lines that end errors of
\* one or two keys, and lines the pass skips for their message, their time or their form
ErrorLogLines ==
    [BS |-> {"[9:00:01 AM], [OCCURED] [101] JAM", "[9:00:03 AM],[OCCURED][101] JAM",
             "[9:00:05 AM] [CLEARED] [101] JAM", " [9:00:09 AM][CLEARED] [101]  JAM ",
             "[9:00:04 AM] [CLEARED] [101]", "OCCURED [101] JAM"},
     BA |-> {"[9:00:01 AM][OCCURED] [101] JAM", "[9:00:05 AM][CLEARED] [101] JAM",
             "[9:00:03 AM][OCCURED] [102] DOOR", "[9:00:09 AM][CLEARED][102] DOOR",
             "[9:00:04 AM][OCCURED] [101] (null)", "[13:00:06 PM][CLEARED] [101] JAM"},
     TR |-> {"[9:00:01 AM] An ERROR ,[101], JAM",
             "[9:00:05 AM] ERROR RESET ,[101], JAM ==> HOLDING TIME : ( 0:00:03 )",
             "[9:00:06 AM] ERROR RESET ,101, JAM", "[9:00:03 AM]An ERROR,102,DOOR",
             "[9:00:09 AM] ERROR RESET ,[102], DOOR ==> open",
             "[9:00:61 AM] An ERROR ,[101], JAM"},
     FV |-> {"[09:00:01], An ERROR ,[101], JAM", "[09:00:03], An ERROR ,[101], JAM",
             "[09:00:05], ERROR RESET ,[101], JAM",
             "[09:00:09], ERROR RESET ,[101], JAM ==> HOLDING TIME : (0:00:00)",
             "[9:00:04], An ERROR ,[101], JAM", "[24:00:00], ERROR RESET ,[101], JAM"}]

\* the values of start_filter: none, and a time between the first two lines
StartFilters == {None, parse_timestamp("9:00:02 AM")}

\* the most lines a drawn error log has
MaxErrorLines == 3

RECURSIVE ErrorLogs(_, _)
ErrorLogs(station_code, n) ==
    IF n = 0 THEN {<<>>}
    ELSE LET shorter == ErrorLogs(station_code, n - 1)
         IN  shorter \cup {Append(l, e) : l \in {x \in shorter : Len(x) = n - 1},
                                          e \in ErrorLogLines[station_code]}

ErrorLogInit ==
    /\ \E station_code \in DOMAIN ErrorLogLines :
           store \in [lines : ErrorLogs(station_code, MaxErrorLines),
                      station_code : {station_code}, start_filter : StartFilters]
    /\ resp = [op |-> "start", arg |-> "", code |-> 200, body |-> <<>>]
    /\ before = store

ParseErrorLog ==
    /\ resp' = [op |-> "parse_error_log", arg |-> Join(store.lines, "\n"), code |-> 200,
                body |-> parse_error_log(Join(store.lines, "\n"), store.station_code,
                                         store.start_filter)]
    /\ before' = store
    /\ UNCHANGED store

ErrorLogNext == ParseErrorLog

ErrorLogSpec == ErrorLogInit /\ [][ErrorLogNext]_vars

(***************************************************************************)
(* Properties of the proposals                                             *)
(***************************************************************************)

\* every DELETE proposal of a list has no after snapshot
DeletesHaveNoAfter(changes) ==
    \A i \in 1..Len(changes) : changes[i].action = "DELETE" => changes[i].sql_after = None

\* what find_error_event_mismatches returns on the error log and each error table
ErrorChanges ==
    {find_error_event_mismatches(parse_mmi_log(ErrorLog), ErrorTables[i]).changes :
        i \in DOMAIN ErrorTables}

\* C11: DELETE invariant: in every ledger state reachable by uploads, analyses, approvals
\* and rejections, every proposal with action DELETE has after = null; so has every
\* DELETE proposal that the detectors produce on any log and table of the catalogue
\* (DUPLICATE_INSERT, ORPHAN_ROW, REPEATED_INSERT) and on the error tables (the duplicate
\* variant of ERROR_EVENT_MISMATCH).
C11_DeleteHasNoAfter ==
    /\ DeletesHaveNoAfter(store.changes)
    /\ \A r \in AnalysisResult : DeletesHaveNoAfter(r.changes)
    /\ \A changes \in ErrorChanges : DeletesHaveNoAfter(changes)

\* C11 witness: the ledger holds a DELETE proposal that has just been approved
C11_Witness ==
    /\ resp.op = "approve" /\ resp.code = 200
    /\ \E i \in 1..Len(store.changes) :
          /\ store.changes[i].id = resp.arg
          /\ store.changes[i].action = "DELETE"
          /\ store.changes[i].status = "approved"
          /\ store.changes[i].sql_before # None

\* the field an UPDATE proposal is to change
UpdatedField(c) ==
    CASE c.issue_type = "MISSING_PSA_TAPE" -> "PSA_TAPE_PIC"
      [] c.issue_type = "INDEX_MISMATCH" -> c.field
      [] c.issue_type = "ERROR_EVENT_MISMATCH" -> "CLEAR_TIME"
      [] OTHER -> ""

\* the after snapshot of c is a full record that differs from the before snapshot in
\* the field c is to change
AfterDiffers(c) ==
    /\ c.sql_after # None
    /\ c.sql_before # None
    /\ DOMAIN c.sql_before \subseteq DOMAIN c.sql_after
    /\ UpdatedField(c) \in DOMAIN c.sql_after
    /\ Get(c.sql_after, UpdatedField(c)) # Get(c.sql_before, UpdatedField(c))
    /\ c.sql_after # c.sql_before

\* C12: UPDATE invariant: every proposal with action UPDATE that a detector returns has
\* a non-null after snapshot, a full record that differs from the before snapshot in at
\* least one field: PSA_TAPE_PIC for MISSING_PSA_TAPE, the rewritten PSA picture field
\* for INDEX_MISMATCH, the clear time for ERROR_EVENT_MISMATCH.
C12_UpdateChangesAField ==
    \A i \in 1..Len(resp.body) :
        resp.body[i].action = "UPDATE"
        => /\ resp.body[i].issue_type
              \in {"MISSING_PSA_TAPE", "INDEX_MISMATCH", "ERROR_EVENT_MISMATCH"}
           /\ AfterDiffers(resp.body[i])

\* C12 witness: the pipeline has returned UPDATE proposals of all three kinds
C12_Witness ==
    /\ resp.op = "find_all_issues"
    /\ \A type \in {"MISSING_PSA_TAPE", "INDEX_MISMATCH", "ERROR_EVENT_MISMATCH"} :
          \E i \in 1..Len(resp.body) :
              resp.body[i].action = "UPDATE" /\ resp.body[i].issue_type = type

WallClock(t) == {v.secs : v \in {w \in ValidTimes : w.s = t}}

\* C14: for every valid time string, 12-hour h:mm:ss AM|PM with or without leading zero
\* or 24-hour HH:MM:SS, normalize returns hour24 * 3600 + minute * 60 + second (PM adds
\* 12 hours except at hour 12, 12 AM is hour 0); hence normalize orders valid time
\* strings as the wall clock orders them within a day.
C14_NormalizeIsSecondsSinceMidnight ==
    resp.op = "_normalize_time"
    => /\ \A secs \in WallClock(resp.arg) : resp.body = secs
       /\ \A other \in {store.t1, store.t2} :
             \A a \in WallClock(resp.arg), b \in WallClock(other) :
                 (a < b) <=> (resp.body < _normalize_time(other))

\* C14 witness: normalize has returned 0 for 12:00:00 AM while the other time string of
\* the state is 11:59:59 PM
C14_Witness ==
    /\ resp.op = "_normalize_time"
    /\ resp.arg = "12:00:00 AM" /\ resp.body = 0
    /\ store.t1 = "11:59:59 PM"

\* C15: times_close(t1, t2, w) is true exactly when the seconds normalize returns for t1
\* and for t2 are at most w apart, and it is symmetric: times_close(t2, t1, w) is the
\* same, for all time strings and all w >= 0.
C15_TimesCloseSymmetricWindow ==
    resp.op = "_times_close"
    => LET secs1 == _normalize_time(store.t1)
           secs2 == _normalize_time(store.t2)
           apart == IF secs1 >= secs2 THEN secs1 - secs2 ELSE secs2 - secs1
       IN  /\ resp.body = (apart <= store.window_seconds)
           /\ resp.body = _times_close(store.t2, store.t1, store.window_seconds)

\* C15 witness: times_close has returned true for a valid time string that is earlier
\* than the second one, within the window of 60 s
C15_Witness ==
    /\ resp.op = "_times_close" /\ resp.body = TRUE
    /\ store.window_seconds = 60
    /\ WallClock(store.t1) # {}
    /\ _normalize_time(store.t1) < _normalize_time(store.t2)

\* a clock reading h:mm:ss or hh:mm:ss with minutes and seconds below 60
IsClock(c, max_hour) ==
    LET parts == Split(c, ":")
    IN  /\ Len(parts) = 3
        /\ Len(parts[1]) \in {1, 2} /\ Len(parts[2]) = 2 /\ Len(parts[3]) = 2
        /\ \A k \in 1..3 : AllDigits(parts[k])
        /\ DigitsValue(parts[1]) <= max_hour
        /\ DigitsValue(parts[2]) <= 59 /\ DigitsValue(parts[3]) <= 59

\* t matches neither time grammar: 24-hour HH:MM:SS, 12-hour h:mm:ss AM|PM
ParseFailure(t) ==
    LET words == Split(t, " ")
    IN  ~ \/ Len(t) = 8 /\ IsClock(t, 23)
          \/ /\ Len(words) = 2 /\ words[2] \in {"AM", "PM"}
             /\ IsClock(words[1], 12) /\ DigitsValue(Split(words[1], ":")[1]) >= 1

\* C16: a time that is missing or matches neither time grammar is treated as absent,
\* never as a time of day: no detector matches a log event to a record whose time is
\* missing or unparseable, so that a proposal for such a record carries no evidence
\* line and a record with no DATE is not given a PSA tape image of an event.
C16_UnparseableTimeMatchesNothing ==
    \A i \in 1..Len(resp.body) :
        (resp.body[i].issue_type # "REPEATED_INSERT" /\ ParseFailure(resp.body[i].timestamp))
        => /\ resp.body[i].mmi_evidence = <<>>
           /\ resp.body[i].issue_type = "MISSING_PSA_TAPE" => resp.body[i].action = "FLAG"

(***************************************************************************)
(* Properties of the serial analyzer                                       *)
(***************************************************************************)

RECURSIVE SumOfUnits(_, _)
SumOfUnits(runs, i) == IF i > Len(runs) THEN 0 ELSE runs[i].numUnits + SumOfUnits(runs, i + 1)

\* C17: the production runs partition the units: the run sizes sum to the number of
\* units, every unit lies in exactly one run, and a unit with gap > 60 s starts a new
\* run.  Scans at 0 s, 20 s and 95 s give two runs, of sizes 2 and 1.
C17_RunsPartitionUnits ==
    (resp.op = "analyze_serial" /\ resp.body # None)
    => /\ SumOfUnits(resp.body.runs, 1) = Len(resp.body.units)
       /\ Len(resp.body.runs)
          = 1 + Cardinality({k \in 2..Len(resp.body.units) : resp.body.units[k].isStoppage})

\* the events analyze_serial reads: scans that carry a serial
SerialScans(events) == SelectSeq(events, LAMBDA e : e.sn # "" /\ e.category = "Scan")

\* the position in the stream of the first scan of a serial
FirstScan(scans, sn) ==
    CHOOSE i \in 1..Len(scans) : scans[i].sn = sn /\ \A j \in 1..(i - 1) : scans[j].sn # sn

\* the summed gaps of the units at the positions in ks
RECURSIVE SumOfGaps(_, _)
SumOfGaps(units, ks) ==
    IF ks = {} THEN 0
    ELSE LET k == CHOOSE x \in ks : TRUE
         IN  units[k].gap + SumOfGaps(units, ks \ {k})

\* C18: the units are one per distinct serial, at the time of the serial's first scan
\* and in the order of the first scans; a unit's gap is the time in seconds since the
\* unit kept before it (0 for the first); a unit is a stoppage iff gap > 60 and a buffer
\* clear iff 0 < gap < 30, never both; stats.stoppages and stats.totalStoppageTime are
\* the number and the summed gaps of the stoppage units.
C18_UnitsAreFirstScansWithGaps ==
    (resp.op = "analyze_serial" /\ resp.body # None)
    => LET scans == SerialScans(store.events)
           units == resp.body.units
           stops == {k \in 1..Len(units) : units[k].isStoppage}
       IN  /\ {units[k].sn : k \in 1..Len(units)} = {scans[i].sn : i \in 1..Len(scans)}
           /\ \A k, l \in 1..Len(units) :
                  /\ k # l => units[k].sn # units[l].sn
                  /\ k < l => FirstScan(scans, units[k].sn) < FirstScan(scans, units[l].sn)
           /\ \A k \in 1..Len(units) :
                  /\ units[k].timeMs = scans[FirstScan(scans, units[k].sn)].timeMs
                  /\ units[k].gap * 1000
                     = IF k = 1 THEN 0 ELSE units[k].timeMs - units[k - 1].timeMs
                  /\ units[k].isStoppage <=> units[k].gap > 60
                  /\ units[k].isBuffer <=> (0 < units[k].gap /\ units[k].gap < 30)
                  /\ ~(units[k].isStoppage /\ units[k].isBuffer)
           /\ resp.body.stats.stoppages = Cardinality(stops)
           /\ resp.body.stats.totalStoppageTime = SumOfGaps(units, stops)

\* a serial scanned twice, the second scan later than a stoppage
C18_Witness ==
    /\ resp.op = "analyze_serial" /\ resp.body # None
    /\ Len(SerialScans(store.events)) > Len(resp.body.units)
    /\ \E k \in 1..Len(resp.body.units) : resp.body.units[k].isStoppage

(***************************************************************************)
(* Properties of the detectors                                             *)
(***************************************************************************)

\* the SQL_INSERT events of the log, in log order
InsertEvents(mmi_events) == SelectSeq(mmi_events, LAMBDA e : e.event_type = "SQL_INSERT")

\* insert j carries the payload of insert j - 1 and lies within 30 s of it
FollowsNeighbour(inserts, j) ==
    /\ j > 1
    /\ ValuesOf(inserts[j]) = ValuesOf(inserts[j - 1])
    /\ _times_close(inserts[j - 1].timestamp, inserts[j].timestamp, 30)

\* the first and the last insert of the maximal run insert j lies in
RunFirst(inserts, j) ==
    CHOOSE a \in 1..j : /\ \A k \in (a + 1)..j : FollowsNeighbour(inserts, k)
                        /\ ~FollowsNeighbour(inserts, a)

RunLast(inserts, j) ==
    CHOOSE b \in j..Len(inserts) :
        /\ \A k \in (j + 1)..b : FollowsNeighbour(inserts, k)
        /\ b = Len(inserts) \/ ~FollowsNeighbour(inserts, b + 1)

\* C19: find_repeated_inserts returns one proposal for each occurrence 2..N of every
\* maximal run of N >= 3 consecutive inserts with the same payload, each within 30 s of
\* its neighbour, and no other proposal; a proposal is a DELETE of a matched record or
\* a FLAG with a null target.
C19_RepeatedInsertPerNeighbourRun ==
    resp.op = "find_repeated_inserts"
    => LET inserts == InsertEvents(store.mmi_events)
           repeats == {j \in 1..Len(inserts) :
                          /\ RunFirst(inserts, j) < j
                          /\ RunLast(inserts, j) - RunFirst(inserts, j) + 1 >= 3}
       IN  /\ Len(resp.body) = Cardinality(repeats)
           /\ {resp.body[k].id : k \in 1..Len(resp.body)}
              = {"repeated_" \o IntStr(inserts[j].line_number) : j \in repeats}
           /\ \A k \in 1..Len(resp.body) :
                  /\ resp.body[k].issue_type = "REPEATED_INSERT"
                  /\ \/ resp.body[k].action = "DELETE" /\ resp.body[k].sql_row_id # None
                     \/ resp.body[k].action = "FLAG" /\ resp.body[k].sql_row_id = None

\* records i - 1 and i of the table have the same timestamp, serials and tape picture
SameRecord(rows, i) ==
    /\ Get(rows[i], "DATE") = Get(rows[i - 1], "DATE")
    /\ Get(rows[i], "POWER_BOARD_SN") = Get(rows[i - 1], "POWER_BOARD_SN")
    /\ Get(rows[i], "BATTERY_SN") = Get(rows[i - 1], "BATTERY_SN")
    /\ Get(rows[i], "PSA_TAPE_PIC") = Get(rows[i - 1], "PSA_TAPE_PIC")

\* the proposals, every one approved
AllApproved(changes) == [k \in 1..Len(changes) |-> [changes[k] EXCEPT !.status = "approved"]]

\* C20: find_duplicate_rows returns exactly one proposal, a DELETE of the second record,
\* for every adjacent pair of records with the same timestamp, POWER_BOARD_SN,
\* BATTERY_SN and PSA_TAPE_PIC, and none for any other pair; so the first record of a
\* run of identical records is never targeted, and the table cleaned with every
\* proposal approved keeps exactly the records that do not repeat their predecessor.
C20_DuplicateInsertPerAdjacentPair ==
    resp.op = "find_duplicate_rows"
    => LET rows == store.sql_data
           seconds == {i \in 2..Len(rows) : SameRecord(rows, i)}
           cleaned == CleanedTable([columns |-> Columns, rows |-> rows],
                                   AllApproved(resp.body)).rows
       IN  /\ Len(resp.body) = Cardinality(seconds)
           /\ \A i \in seconds :
                  \E k \in 1..Len(resp.body) :
                      /\ resp.body[k].issue_type = "DUPLICATE_INSERT"
                      /\ resp.body[k].action = "DELETE"
                      /\ resp.body[k].sql_row_id = Get(rows[i], "ID")
           /\ \A k \in 1..Len(resp.body) :
                  \E i \in seconds : resp.body[k].sql_row_id = Get(rows[i], "ID")
           /\ Len(cleaned) = Len(rows) - Cardinality(seconds)
           /\ {Get(cleaned[k], "ID") : k \in 1..Len(cleaned)}
              = {Get(rows[i], "ID") : i \in (1..Len(rows)) \ seconds}

\* an empty value: null, NaN or the blank string
IsEmptyValue(v) == IsNa(v) \/ v = Str("")

\* the seconds since midnight a time string that matches a time grammar denotes
TimeOfDay(t) ==
    LET words == Split(t, " ")
        clock == Split(words[1], ":")
        hour == DigitsValue(clock[1])
        hour24 == IF Len(words) = 1 THEN hour
                  ELSE (hour % 12) + IF words[2] = "PM" THEN 12 ELSE 0
    IN  hour24 * 3600 + DigitsValue(clock[2]) * 60 + DigitsValue(clock[3])

\* both strings are times of day, at most window seconds apart
WithinWindow(t1, t2, window) ==
    /\ ~ParseFailure(t1) /\ ~ParseFailure(t2)
    /\ TimeOfDay(t1) - TimeOfDay(t2) <= window
    /\ TimeOfDay(t2) - TimeOfDay(t1) <= window

\* the positions of the records with an empty PSA_TAPE_PIC and a populated serial number
MissingTapeRecords(rows) ==
    {i \in 1..Len(rows) :
        /\ IsEmptyValue(Get(rows[i], "PSA_TAPE_PIC"))
        /\ \/ ~IsEmptyValue(Get(rows[i], "POWER_BOARD_SN"))
           \/ ~IsEmptyValue(Get(rows[i], "BATTERY_SN"))}

\* the positions of the CAM4_PSA_TAPE events within 60 s of the time of a record
TapeEventsNear(events, row) ==
    {j \in 1..Len(events) :
        /\ events[j].event_type = "CAM4_PSA_TAPE"
        /\ WithinWindow(events[j].timestamp, _extract_time(Get(row, "DATE")), 60)}

\* C21: find_missing_psa_tape returns exactly one proposal for each record with an empty
\* PSA_TAPE_PIC and other populated fields and none for other records; when a
\* CAM4_PSA_TAPE event lies within 60 s of the record's time the proposal is an UPDATE
\* whose after.PSA_TAPE_PIC is the image of the first such event in log order, otherwise
\* it is a FLAG with a null after.
C21_MissingPsaTapeFixFromFirstEvent ==
    resp.op = "find_missing_psa_tape"
    => LET rows == store.sql_data
           events == store.mmi_events
           missing == MissingTapeRecords(rows)
       IN  /\ Len(resp.body) = Cardinality(missing)
           /\ \A k \in 1..Len(resp.body) : resp.body[k].issue_type = "MISSING_PSA_TAPE"
           /\ \A i \in missing :
                  \E k \in 1..Len(resp.body) :
                      /\ resp.body[k].sql_row_id = Get(rows[i], "ID")
                      /\ LET near == TapeEventsNear(events, rows[i])
                             first == CHOOSE j \in near : \A l \in near : j <= l
                         IN  IF near # {}
                             THEN /\ resp.body[k].action = "UPDATE"
                                  /\ resp.body[k].sql_after # None
                                  /\ "image" \in DOMAIN events[first].data
                                  /\ Get(resp.body[k].sql_after, "PSA_TAPE_PIC")
                                     = Str(events[first].data["image"])
                             ELSE /\ resp.body[k].action = "FLAG"
                                  /\ resp.body[k].sql_after = None

\* the positions of the records without serial numbers that hold a PSA picture
OrphanRecords(rows) ==
    {i \in 1..Len(rows) :
        /\ IsEmptyValue(Get(rows[i], "POWER_BOARD_SN"))
        /\ IsEmptyValue(Get(rows[i], "BATTERY_SN"))
        /\ \E f \in {"PSA_TAPE_PIC", "POWER_BOARD_PSA_PIC", "BATTERY_PSA_PIC"} :
               ~IsEmptyValue(Get(rows[i], f))}

\* C22: find_orphan_rows returns exactly one proposal, a DELETE with a null after, for
\* each record whose POWER_BOARD_SN and BATTERY_SN are both empty and that has one of
\* PSA_TAPE_PIC, POWER_BOARD_PSA_PIC, BATTERY_PSA_PIC populated, and none for any other
\* record.
C22_OrphanRowPerSerialLessRecord ==
    resp.op = "find_orphan_rows"
    => LET rows == store.sql_data
           orphans == OrphanRecords(rows)
       IN  /\ Len(resp.body) = Cardinality(orphans)
           /\ {resp.body[k].sql_row_id : k \in 1..Len(resp.body)}
              = {Get(rows[i], "ID") : i \in orphans}
           /\ \A k \in 1..Len(resp.body) :
                  /\ resp.body[k].issue_type = "ORPHAN_ROW"
                  /\ resp.body[k].action = "DELETE"
                  /\ resp.body[k].sql_after = None

\* an orphan record has been reported and a record with a serial number has not
C22_Witness ==
    /\ resp.op = "find_orphan_rows"
    /\ Len(resp.body) > 0
    /\ Len(resp.body) < Len(store.sql_data)
    /\ \E i \in 1..Len(store.sql_data) :
           /\ ~IsEmptyValue(Get(store.sql_data[i], "POWER_BOARD_SN"))
           /\ IsEmptyValue(Get(store.sql_data[i], "BATTERY_SN"))
           /\ ~IsEmptyValue(Get(store.sql_data[i], "POWER_BOARD_PSA_PIC"))

\* the index of a picture file name that ends in "_" and digits: one value, or none
\* for any other value
PictureIndex(v) ==
    IF v.t # "str" THEN {}
    ELSE {DigitsValue(From(v.s, d + 1)) :
             d \in {e \in 1..(Len(v.s) - 1) : Ch(v.s, e) = "_" /\ AllDigits(From(v.s, e + 1))}}

\* what precedes the trailing "_" and digits of a picture file name
PicturePrefix(v) ==
    LET d == CHOOSE e \in 1..(Len(v.s) - 1) : Ch(v.s, e) = "_" /\ AllDigits(From(v.s, e + 1))
    IN  SubSeq(v.s, 1, d - 1)

\* the SN picture and the PSA picture of the two components
Components ==
    {[sn |-> "POWER_BOARD_SN_PIC", psa |-> "POWER_BOARD_PSA_PIC"],
     [sn |-> "BATTERY_SN_PIC", psa |-> "BATTERY_PSA_PIC"]}

\* record i and component c: both pictures carry an index and the PSA index is not the
\* SN index + 6
IndexesMismatch(rows, i, c) ==
    \E a \in PictureIndex(Get(rows[i], c.sn)), b \in PictureIndex(Get(rows[i], c.psa)) :
        b # a + 6

C24_IndexFixKeepsPsaPrefix ==
    resp.op = "find_cam2_index_mismatches"
    => \A k \in 1..Len(resp.body) :
           Get(resp.body[k].sql_after, resp.body[k].field)
           = Str(PicturePrefix(Get(resp.body[k].sql_before, resp.body[k].field))
                 \o "_" \o Fmt04d(resp.body[k].expected_index))

\* the rows with every empty value held as null
WithNullForEmpty(rows) ==
    [i \in 1..Len(rows) |->
        [f \in DOMAIN rows[i] |-> IF IsEmptyValue(rows[i][f]) THEN None ELSE rows[i][f]]]

\* issue type, target id and action of the proposals, in order
Emitted(changes) ==
    [k \in 1..Len(changes) |->
        <<changes[k].issue_type, changes[k].sql_row_id, changes[k].action>>]

\* C25: blank string, missing key and null are the same empty value to every detector:
\* the proposals (issue type, target id, action) the pipeline emits for a table are
\* those it emits for the table with every empty value written as null, so replacing
\* one representation of empty by another changes none of them; two adjacent records
\* equal in timestamp and serials whose PSA_TAPE_PIC is null in one and blank in the
\* other are reported as a DUPLICATE_INSERT.
C25_EmptyValuesAreUniform ==
    (resp.op = "find_all_issues" /\ resp.code = 200)
    => Emitted(resp.body)
       = Emitted(find_all_issues_with(store.mmi_events, WithNullForEmpty(store.sql_data),
                                      store.sql_error_data).changes)

(***************************************************************************)
(* Properties of the cross-source correlator                               *)
(***************************************************************************)

\* errors a..b of the time-sorted errors all start within the window of error a
IsRun(sorted, a, b) ==
    a <= b /\ \A k \in a..b : sorted[k].startTimeMs - sorted[a].startTimeMs <= 60 * 1000

\* the maximal runs: runs that neither the error before nor the error after extends
MaximalRuns(sorted) ==
    {r \in (1..Len(sorted)) \X (1..Len(sorted)) :
        /\ IsRun(sorted, r[1], r[2])
        /\ ~(r[1] > 1 /\ IsRun(sorted, r[1] - 1, r[2]))
        /\ ~(r[2] < Len(sorted) /\ IsRun(sorted, r[1], r[2] + 1))}

\* the errors of run r as a cascade lists them
RunErrors(sorted, r) ==
    [k \in 1..(r[2] - r[1] + 1) |->
        [station |-> sorted[r[1] + k - 1].station, code |-> sorted[r[1] + k - 1].code,
         message |-> sorted[r[1] + k - 1].message, time |-> sorted[r[1] + k - 1].startTime]]

\* C26: the cascades are exactly the maximal runs of the time-sorted errors in which
\* every error starts within 60 s of the run's first error and that span at least 2
\* distinct stations; no cascade is confined to one station and at most 50 are
\* returned.
C26_CascadesAreMaximalRuns ==
    resp.op = "analyze_cross_station"
    => LET sorted == SortedByStart(store.all_errors)
           cascades == resp.body.cascades
           spanning == {r \in MaximalRuns(sorted) :
                           \E k, l \in r[1]..r[2] : sorted[k].station # sorted[l].station}
       IN  /\ {cascades[k].errors : k \in 1..Len(cascades)}
              = {RunErrors(sorted, r) : r \in spanning}
           /\ \A k \in 1..Len(cascades) : Cardinality(cascades[k].stations) >= 2
           /\ Len(cascades) <= 50

(***************************************************************************)
(* Properties of the log parser                                            *)
(***************************************************************************)

\* the closed enumeration of event types
EventTypes ==
    {"MMI_START", "SQL_INSERT", "CAM2_SN", "CAM3_PRS", "CAM4_PSA_TAPE", "CAM2_PSA_POWER",
     "CAM2_PSA_BATTERY", "PLC_DM", "TOTAL_LOG", "ERROR_CLEAR", "ERROR", "PLC_FLAG", "OTHER"}

\* a trimmed line that starts with a bracketed, non-empty segment followed by content
IsEventLine(line) ==
    \E p \in 3..(Len(line) - 1) :
        /\ Ch(line, 1) = "[" /\ Ch(line, p) = "]"
        /\ \A q \in 2..(p - 1) : Ch(line, q) # "]"

\* no classification rule mentions anything the content holds
MatchesNoRule(content) ==
    /\ \A w \in {"MMI START", "INSERT INTO", "PLC DM", "TOTAL LOG", "ERROR", "ALARM",
                 "6101", "FLAG"} : ~Contains(Upper(content), w)
    /\ \A n \in {"2", "3", "4", "5", "6"} : ~StartsWith(content, "+" \o n \o ",")

\* C27: parse_mmi_log fails on no log text; it returns one event for each trimmed,
\* non-blank line that starts with a bracketed time followed by content and none for
\* any other line; the line_number values are the 1-based numbers of those lines,
\* unique and strictly increasing in output order; every event_type is of the closed
\* enumeration, and OTHER when no classification rule matches.
C27_ParserEventsPerBracketedLine ==
    resp.op = "parse_mmi_log"
    => LET lines == store.lines
           events == resp.body
           bracketed == {i \in 1..Len(lines) : IsEventLine(Strip(lines[i]))}
       IN  /\ resp.code = 200
           /\ Len(events) = Cardinality(bracketed)
           /\ {events[k].line_number : k \in 1..Len(events)} = bracketed
           /\ \A k, l \in 1..Len(events) :
                  k < l => events[k].line_number < events[l].line_number
           /\ \A k \in 1..Len(events) :
                  /\ events[k].raw = Strip(lines[events[k].line_number])
                  /\ events[k].event_type \in EventTypes
                  /\ MatchesNoRule(events[k].content) => events[k].event_type = "OTHER"

\* a log with CR line ends whose first line is noise and whose later lines gave an
\* event of type OTHER and one of another type
C27_Witness ==
    /\ resp.op = "parse_mmi_log"
    /\ store.newline = "\r"
    /\ Len(resp.body) = 2
    /\ resp.body[1].line_number = 2
    /\ resp.body[1].event_type = "OTHER"
    /\ resp.body[2].event_type = "ERROR_CLEAR"

(***************************************************************************)
(* Properties of the proposal ids                                          *)
(***************************************************************************)

\* C28: the record IDs of every table being unique, the ids of the proposals of a
\* ledger are pairwise distinct; get(id), approve(id) and reject(id) that succeed
\* address exactly one proposal, and an approve or reject sets the status of that
\* proposal and leaves every other proposal, and every other field, as it was.
C28_ProposalIdsAddressOneProposal ==
    [][ /\ \A k, l \in 1..Len(store'.changes) :
               k # l => store'.changes[k].id # store'.changes[l].id
        /\ (resp'.op \in {"get", "approve", "reject"} /\ resp'.code = 200)
           => /\ Cardinality({k \in 1..Len(store.changes) :
                                 store.changes[k].id = resp'.arg}) = 1
              /\ Len(store'.changes) = Len(store.changes)
              /\ \A k \in 1..Len(store.changes) :
                     store'.changes[k]
                     = IF store.changes[k].id = resp'.arg /\ resp'.op # "get"
                       THEN [store.changes[k] EXCEPT
                                !.status = IF resp'.op = "approve" THEN "approved"
                                           ELSE "rejected"]
                       ELSE store.changes[k] ]_vars

\* an approve has been served in a ledger of several proposals: the one named is
\* approved, another one is pending
C28_Witness ==
    /\ resp.op = "approve" /\ resp.code = 200
    /\ before.target = "pending"
    /\ \E k, l \in 1..Len(store.changes) :
           /\ store.changes[k].id = resp.arg /\ store.changes[k].status = "approved"
           /\ store.changes[l].id # resp.arg /\ store.changes[l].status = "pending"

(***************************************************************************)
(* Properties of the ledger and the stored dataset                         *)
(***************************************************************************)

\* C29: the ledger is never stale: in every reachable state the stored events are those
\* of the stored log text, the stored rows those of the stored table, and a ledger that
\* holds proposals holds, statuses apart, the proposals of the analysis of the stored
\* events and rows; each non-null target id is the ID of a record of the stored table
\* and each evidence line number that of a stored event, so that an export applies only
\* proposals computed from the stored files.
C29_LedgerNeverStale ==
    /\ store.mmi_events = ParsedLog(store.mmi_raw)
    /\ store.sql_df # None
       => \E keep_nan \in BOOLEAN : store.sql_data = parse_sql_export(store.sql_df, keep_nan)
    /\ store.changes # <<>>
       => /\ store.sql_df # None
          /\ [k \in 1..Len(store.changes) |-> [store.changes[k] EXCEPT !.status = "pending"]]
             = Issues(store.mmi_events, store.sql_data)
          /\ \A k \in 1..Len(store.changes) :
                 /\ store.changes[k].sql_row_id # None
                    => \E i \in 1..Len(store.sql_df.rows) :
                           Get(store.sql_df.rows[i], "ID") = store.changes[k].sql_row_id
                 /\ \A n \in 1..Len(store.changes[k].mmi_line_numbers) :
                        \E e \in 1..Len(store.mmi_events) :
                            store.mmi_events[e].line_number
                            = store.changes[k].mmi_line_numbers[n]

\* a table has been exported while the ledger held an approved proposal with a target
\* and with evidence lines
C29_Witness ==
    /\ resp.op = "export_sql" /\ resp.code = 200
    /\ \E k \in 1..Len(store.changes) :
           /\ store.changes[k].status = "approved"
           /\ store.changes[k].sql_row_id # None
           /\ store.changes[k].mmi_line_numbers # <<>>

(***************************************************************************)
(* Properties of the error-log pass                                        *)
(***************************************************************************)

\* what the pass reads on the i-th line of the drawn log: whether the line starts or ends
\* an error or is skipped, and the code, the message and the time it gives
ErrorLineReading(i) ==
    Let(store.station_code \in {"BS", "BA"}, LAMBDA status_line :
    Let(IF status_line
        THEN StatusLineMatch(Strip(store.lines[i]), store.station_code)
        ELSE ErrorLineMatch(Strip(store.lines[i]), store.station_code), LAMBDA match :
    Let(IF ~match.ok THEN None ELSE parse_timestamp(match.ts_str), LAMBDA ts :
    Let(IF status_line THEN Strip(match.message)
        ELSE MessageOf(match.message, HoldingSearch(match.message, 1)), LAMBDA message :
        [kind |-> IF \/ ts = None
                     \/ store.start_filter # None /\ ts.n < store.start_filter.n
                     \/ status_line /\ message \in {"(null)", ""}
                  THEN "none"
                  ELSE IF match.status \in {"OCCURED", "An ERROR"} THEN "start"
                  ELSE IF match.status \in {"CLEARED", "ERROR RESET"} THEN "end"
                  ELSE "none",
         key |-> <<match.code, message>>, time |-> match.ts_str]))))

\* the readings of the lines of the drawn log
ErrorLineReadings == [i \in 1..Len(store.lines) |-> ErrorLineReading(i)]

\* the lines of a kind that carry a key, among lines of readings r
LinesOf(r, kind, key) == {i \in DOMAIN r : r[i].kind = kind /\ r[i].key = key}

\* the last start line with the key of line j before line j, 0 when there is none
Opener(r, j) ==
    Let({i \in LinesOf(r, "start", r[j].key) : i < j},
        LAMBDA starts : IF starts = {} THEN 0
                        ELSE CHOOSE i \in starts : \A x \in starts : x <= i)

\* the end lines that find an error of their key pending: one was started before them
\* and no end line of the key lies between its last start and them
ClosingLines(r) ==
    {j \in DOMAIN r :
         /\ r[j].kind = "end"
         /\ Let(Opener(r, j),
                LAMBDA opener : /\ opener # 0
                                /\ \A i \in LinesOf(r, "end", r[j].key) :
                                       ~(opener < i /\ i < j))}

\* the k-th line of a set of lines
KthLine(lines, k) == CHOOSE j \in lines : Cardinality({x \in lines : x < j}) = k - 1

\* the intervals of the timeline that carry a key
IntervalsOf(key) ==
    {k \in 1..Len(resp.body.errorTimeline) :
         <<resp.body.errorTimeline[k].code, resp.body.errorTimeline[k].message>> = key}

\* C30: the intervals of parse_error_log are the pairs of the pairing: one interval per
\* end line that finds an error of its key pending, in the order of these lines, from
\* the last start line of the key before it to the end line itself, a later start
\* replacing a pending one and an end line without a pending error giving nothing.
\* Every interval ends at a line after its start line, no start line is in two
\* intervals, a key has at most as many intervals as end lines, and a key that is
\* started and never ended has none.
C30_IntervalsPairStartAndEndLines ==
    resp.op = "parse_error_log"
    => Let(ErrorLineReadings, LAMBDA r : Let(ClosingLines(r), LAMBDA closing :
           /\ Len(resp.body.errorTimeline) = Cardinality(closing)
           /\ \A k \in 1..Len(resp.body.errorTimeline) :
                  Let(KthLine(closing, k), LAMBDA j : Let(Opener(r, j), LAMBDA i :
                      /\ i >= 1 /\ i < j
                      /\ <<resp.body.errorTimeline[k].code,
                           resp.body.errorTimeline[k].message>> = r[j].key
                      /\ resp.body.errorTimeline[k].startTime = r[i].time
                      /\ resp.body.errorTimeline[k].endTime = r[j].time))
           /\ \A j1, j2 \in closing : Opener(r, j1) = Opener(r, j2) => j1 = j2
           /\ \A key \in {r[i].key : i \in DOMAIN r} :
                  /\ Cardinality(IntervalsOf(key)) <= Cardinality(LinesOf(r, "end", key))
                  /\ LinesOf(r, "start", key) # {} /\ LinesOf(r, "end", key) = {}
                     => IntervalsOf(key) = {}))

\* a log has been read in which a start line replaced a pending start line of its key
\* and an end line closed the later one
C30_Witness ==
    /\ resp.op = "parse_error_log"
    /\ Len(resp.body.errorTimeline) = 1
    /\ Let(ErrorLineReadings, LAMBDA r : Let(KthLine(ClosingLines(r), 1), LAMBDA j :
           \E i \in LinesOf(r, "start", r[j].key) :
               /\ i < Opener(r, j)
               /\ r[i].time # resp.body.errorTimeline[1].startTime))

====
